---- MODULE Spec2Model ----
(***************************************************************************)
(* The IPC watcher of nanoclaw: the per-tenant mailbox directories, the    *)
(* polling loop that reads, authorizes, executes and disposes of request   *)
(* files (startIpcWatcher / processIpcFiles), and the task request         *)
(* processor (processTaskIpc) with its task store and group registry.      *)
(***************************************************************************)
EXTENDS Integers, Sequences, FiniteSets, TLC

VARIABLES
  ipcWatcherRunning, \* the module-level guard of startIpcWatcher
  pc,                \* "stopped" | "failed" | "timer" | "cycle" | "dead": where the loop is
  timers,            \* the number of pending calls of processIpcFiles (setTimeout)
  cycles,            \* the number of calls of processIpcFiles that have not returned
  cycleGroups,       \* registeredGroups as read once at the start of the cycle
  todo,              \* the <<folder, channel>> directories the cycle still has to scan
  files,             \* the listed file names of the current channel still to handle
  cur,               \* the file being handled (between its read and its disposal)
  trace,             \* what the current cycle has listed, begun and finished so far
  done,              \* the file handled last, with what happened to it
  mailbox,           \* <<folder, channel, name>> -> file content or NoFile
  errors,            \* the errors directory: name -> file content
  tasks,             \* the task store: id -> Task
  groups,            \* the registry: jid -> RegisteredGroup or NoGroup
  nextId,            \* the number of task ids generated so far
  writes,            \* the number of files tenants have written so far
  voice              \* the last call of transcribeAudio: its inputs and its outcome

vars ==
  <<ipcWatcherRunning, pc, timers, cycles, cycleGroups, todo, files, cur, trace,
    done, mailbox, errors, tasks, groups, nextId, writes, voice>>

----------------------------------------------------------------------------
(* Bounds of the model *)

MaxWrites == 1

MaxFiles == 3

MaxTasks == 2

MaxRequests == 2


----------------------------------------------------------------------------
(* Configuration and the directory layout *)

MAIN_GROUP_FOLDER == "main"

ASSISTANT_NAME == "Foxy"

ErrorsDir == "errors"

\* The tenant directories under the IPC root (each has messages/ and tasks/).
Tenants == {"main", "alpha"}

\* Folder names a registration can carry.
Folders == {"main", "alpha", "beta"}

Channels == {"messages", "tasks"}

FileNames == {"a.json", "b.json"}

\* The name a tenant gives a request file while it is writing it.
TempNames == {"a.json.tmp"}

\* The characters of the directory and file names of the model.
Chars(name) ==
  CASE name = "main" -> <<"m", "a", "i", "n">>
    [] name = "alpha" -> <<"a", "l", "p", "h", "a">>
    [] name = "a.json" -> <<"a", ".", "j", "s", "o", "n">>
    [] name = "b.json" -> <<"b", ".", "j", "s", "o", "n">>
    [] name = "a.json.tmp" -> <<"a", ".", "j", "s", "o", "n", ".", "t", "m", "p">>

\* f.includes('.json')
EndsWithJson_Includes(f) ==
  LET c == Chars(f)
  IN  \E i \in 1..Len(c) :
        i + 4 <= Len(c) /\ SubSeq(c, i, i + 4) = <<".", "j", "s", "o", "n">>

\* f.endsWith('.json')
EndsWithJson(f) ==
  LET c == Chars(f)
  IN  Len(c) >= 5 /\ SubSeq(c, Len(c) - 4, Len(c)) = <<".", "j", "s", "o", "n">>

Jids == {"g1", "g2", "g3"}

\* The values Date.now() takes in the model (milliseconds since the epoch).
Instants == {0, 59999}

NoFile == [kind |-> "nofile"]

NoGroup == [name |-> "", folder |-> "", trigger |-> ""]

None == [src |-> ""]

NothingDone == [fs |-> <<>>]

\* No call of transcribeAudio was made yet.
NoCall == [result |-> "none"]

\* Where a collaborator fails while a request is carried out: nowhere, in a
\* synchronous call made before the request has any effect (the registry
\* read, the task store), or in the call that is awaited (sendMessage,
\* syncGroupMetadata, the Google API); "oauth" is the host without the OAuth
\* token and credentials files the action handlers look for.
FailPoints == {"none", "call", "await", "oauth"}

----------------------------------------------------------------------------
(* Text values: a string is a sequence of one-character strings *)

Digits == <<"0", "1", "2", "3", "4", "5", "6", "7", "8", "9">>

IsDigit(c) == \E i \in 1..10 : Digits[i] = c

DigitVal(c) == (CHOOSE i \in 1..10 : Digits[i] = c) - 1

\* A parsed number n is <<n>>; NaN (and a parser's throw) is the empty tuple.
NaN == <<>>

Num(n) == <<n>>

IsNaN(r) == r = NaN

Val(r) == r[1]

\* The decimal digits at the head of s, as a number (acc is the value so far).
RECURSIVE LeadingDigits(_, _)
LeadingDigits(s, acc) ==
  IF s = <<>> \/ ~IsDigit(Head(s))
    THEN acc
    ELSE LeadingDigits(Tail(s), acc * 10 + DigitVal(Head(s)))

RECURSIVE SkipSpaces(_)
SkipSpaces(s) ==
  IF s # <<>> /\ Head(s) = " " THEN SkipSpaces(Tail(s)) ELSE s

\* parseInt(s, 10): leading white space, an optional sign, then the longest run
\* of digits; NaN when there is no digit there.
ParseInt(s) ==
  LET t == SkipSpaces(s)
      neg == t # <<>> /\ Head(t) = "-"
      u == IF t # <<>> /\ Head(t) \in {"-", "+"} THEN Tail(t) ELSE t
  IN  IF u = <<>> \/ ~IsDigit(Head(u))
        THEN NaN
        ELSE IF neg THEN Num(0 - LeadingDigits(u, 0)) ELSE Num(LeadingDigits(u, 0))

IsoPrefix ==
  <<"1", "9", "7", "0", "-", "0", "1", "-", "0", "1", "T", "0", "0", ":">>

TwoDigits(n) == <<Digits[(n \div 10) + 1], Digits[(n % 10) + 1]>>

ThreeDigits(n) ==
  <<Digits[(n \div 100) + 1], Digits[((n \div 10) % 10) + 1], Digits[(n % 10) + 1]>>

\* Date.prototype.toISOString for an instant (milliseconds since the epoch)
\* within the first hour of the epoch.
ToISOString(ms) ==
  IsoPrefix \o TwoDigits(ms \div 60000) \o <<":">>
    \o TwoDigits((ms \div 1000) % 60) \o <<".">> \o ThreeDigits(ms % 1000) \o <<"Z">>

AllDigits(s) == \A i \in 1..Len(s) : IsDigit(s[i])

\* new Date(s).getTime() for the texts the model feeds it: a UTC ISO-8601
\* instant of the first hour of the epoch, with or without the milliseconds
\* part, gives its instant; a text without any digit gives NaN.
DateParse(s) ==
  IF Len(s) \in {20, 24}
       /\ SubSeq(s, 1, 14) = IsoPrefix
       /\ AllDigits(SubSeq(s, 15, 16)) /\ s[17] = ":"
       /\ AllDigits(SubSeq(s, 18, 19)) /\ s[Len(s)] = "Z"
       /\ LeadingDigits(SubSeq(s, 15, 16), 0) < 60
       /\ LeadingDigits(SubSeq(s, 18, 19), 0) < 60
       /\ (Len(s) = 24 => s[20] = "." /\ AllDigits(SubSeq(s, 21, 23)))
    THEN Num(LeadingDigits(SubSeq(s, 15, 16), 0) * 60000
               + LeadingDigits(SubSeq(s, 18, 19), 0) * 1000
               + (IF Len(s) = 24 THEN LeadingDigits(SubSeq(s, 21, 23), 0) ELSE 0))
    ELSE NaN

EveryMinute == <<"*", " ", "*", " ", "*", " ", "*", " ", "*">>

\* CronExpressionParser.parse(expr).next(): the next minute boundary after now
\* for the every-minute expression; NaN (the parser throws) for a text that
\* is no cron expression.
CronNext(expr, now) ==
  IF expr = EveryMinute THEN Num(((now \div 60000) + 1) * 60000) ELSE NaN

----------------------------------------------------------------------------
(* Request files *)

\* A file's content.  kind says what JSON.parse makes of it: "json" an
\* object with the fields below ("" and <<>> stand for an absent or empty
\* field), "null" the JSON text null, "bad" a text that does not parse.
Blank ==
  [kind |-> "json", type |-> "", chatJid |-> "", text |-> "", targetJid |-> "",
   prompt |-> "", schedule_type |-> "", schedule_value |-> <<>>,
   context_mode |-> "", taskId |-> <<>>, jid |-> "", name |-> "", folder |-> "",
   trigger |-> "", groupFolder |-> "", event_id |-> "", summary |-> "",
   start |-> "", end |-> ""]

Unparsable == [Blank EXCEPT !.kind = "bad"]

\* JS truthiness of a string field, and of a field the model holds as a tuple.
Truthy(v) == v # ""

TruthyText(v) == v # <<>>

Null == <<>>

TaskId(n) == <<"task", n>>

\* JSON.parse(fs.readFileSync(filePath)): the parsed value, or a throw.
JsonParse(content) ==
  IF content.kind = "bad" THEN [threw |-> TRUE, data |-> Blank]
                          ELSE [threw |-> FALSE, data |-> content]

----------------------------------------------------------------------------
(* The task store (db.js) and the registry, as the watcher uses them *)

getTaskById(store, id) == IF id \in DOMAIN store THEN store[id] ELSE Null

createTask(store, task) == task.id :> task @@ store

\* updateTask that also clears the next run of the task.
updateTask_ClearNextRun(store, id, status) ==
  IF id \in DOMAIN store
    THEN [store EXCEPT ![id].status = status, ![id].next_run = Null]
    ELSE store

\* updateTask switching the task between active and paused, whatever status
\* it is given.
updateTask_Toggle(store, id, status) ==
  IF id \in DOMAIN store
    THEN [store EXCEPT ![id].status = IF @ = "active" THEN "paused" ELSE "active"]
    ELSE store

updateTask(store, id, status) ==
  IF id \in DOMAIN store THEN [store EXCEPT ![id].status = status] ELSE store

\* deleteTask keeping the record under a status of its own.
deleteTask_MarkDeleted(store, id) ==
  IF id \in DOMAIN store THEN [store EXCEPT ![id].status = "deleted"] ELSE store

deleteTask(store, id) == [i \in DOMAIN store \ {id} |-> store[i]]

\* registerGroup that keeps an existing registration.
registerGroup_KeepExisting(reg, jid, group) ==
  IF reg[jid] # NoGroup THEN reg ELSE [reg EXCEPT ![jid] = group]

registerGroup(reg, jid, group) == [reg EXCEPT ![jid] = group]

Registered(reg, jid) == jid \in DOMAIN reg /\ reg[jid] # NoGroup

----------------------------------------------------------------------------
(* processTaskIpc *)

\* What one execution of a request leaves behind: the store and the registry
\* after it, the collaborator calls it made, its log line, whether it threw.
Outcome(store, reg, calls, log, threw) ==
  [tasks |-> store, groups |-> reg, calls |-> calls, log |-> log, threw |-> threw]

\* NextRun moving a once instant of the past to now.
NextRun_ClampOnce(scheduleType, scheduleValue, now) ==
  CASE scheduleType = "cron" ->
         IF IsNaN(CronNext(scheduleValue, now))
           THEN [ok |-> FALSE, nextRun |-> Null, log |-> "Invalid cron expression"]
           ELSE [ok |-> TRUE, nextRun |-> ToISOString(Val(CronNext(scheduleValue, now))),
                 log |-> ""]
    [] scheduleType = "interval" ->
         LET ms == ParseInt(scheduleValue)
         IN  IF IsNaN(ms) \/ Val(ms) <= 0
               THEN [ok |-> FALSE, nextRun |-> Null, log |-> "Invalid interval"]
               ELSE [ok |-> TRUE, nextRun |-> ToISOString(now + Val(ms)), log |-> ""]
    [] scheduleType = "once" ->
         LET scheduled == DateParse(scheduleValue)
         IN  IF IsNaN(scheduled)
               THEN [ok |-> FALSE, nextRun |-> Null, log |-> "Invalid timestamp"]
               ELSE [ok |-> TRUE, log |-> "",
                     nextRun |-> ToISOString(IF Val(scheduled) < now THEN now
                                                                    ELSE Val(scheduled))]
    [] OTHER -> [ok |-> TRUE, nextRun |-> Null, log |-> ""]

\* NextRun accepting an interval of 0.
NextRun_ZeroAllowed(scheduleType, scheduleValue, now) ==
  CASE scheduleType = "cron" ->
         IF IsNaN(CronNext(scheduleValue, now))
           THEN [ok |-> FALSE, nextRun |-> Null, log |-> "Invalid cron expression"]
           ELSE [ok |-> TRUE, nextRun |-> ToISOString(Val(CronNext(scheduleValue, now))),
                 log |-> ""]
    [] scheduleType = "interval" ->
         LET ms == ParseInt(scheduleValue)
         IN  IF IsNaN(ms) \/ Val(ms) < 0
               THEN [ok |-> FALSE, nextRun |-> Null, log |-> "Invalid interval"]
               ELSE [ok |-> TRUE, nextRun |-> ToISOString(now + Val(ms)), log |-> ""]
    [] scheduleType = "once" ->
         LET scheduled == DateParse(scheduleValue)
         IN  IF IsNaN(scheduled)
               THEN [ok |-> FALSE, nextRun |-> Null, log |-> "Invalid timestamp"]
               ELSE [ok |-> TRUE, nextRun |-> ToISOString(Val(scheduled)), log |-> ""]
    [] OTHER -> [ok |-> TRUE, nextRun |-> Null, log |-> ""]

\* The schedule calculator of schedule_task: the next run as an ISO text, Null
\* when no branch computes one, and the log line of a rejection.
NextRun(scheduleType, scheduleValue, now) ==
  CASE scheduleType = "cron" ->
         IF IsNaN(CronNext(scheduleValue, now))
           THEN [ok |-> FALSE, nextRun |-> Null, log |-> "Invalid cron expression"]
           ELSE [ok |-> TRUE, nextRun |-> ToISOString(Val(CronNext(scheduleValue, now))),
                 log |-> ""]
    [] scheduleType = "interval" ->
         LET ms == ParseInt(scheduleValue)
         IN  IF IsNaN(ms) \/ Val(ms) <= 0
               THEN [ok |-> FALSE, nextRun |-> Null, log |-> "Invalid interval"]
               ELSE [ok |-> TRUE, nextRun |-> ToISOString(now + Val(ms)), log |-> ""]
    [] scheduleType = "once" ->
         LET scheduled == DateParse(scheduleValue)
         IN  IF IsNaN(scheduled)
               THEN [ok |-> FALSE, nextRun |-> Null, log |-> "Invalid timestamp"]
               ELSE [ok |-> TRUE, nextRun |-> ToISOString(Val(scheduled)), log |-> ""]
    [] OTHER -> [ok |-> TRUE, nextRun |-> Null, log |-> ""]

\* ContextMode taking the request's context_mode as it is.
ContextMode_AsGiven(data) == data.context_mode

ContextMode(data) ==
  IF data.context_mode = "group" \/ data.context_mode = "isolated"
    THEN data.context_mode
    ELSE "isolated"

\* MayControl without the ownership test.
MayControl_AnyTenant(task, sourceGroup, isMain) ==
  task # Null

\* MayControl without the main override.
MayControl_OwnerOnly(task, sourceGroup, isMain) ==
  task # Null /\ task.group_folder = sourceGroup

\* The authorization test shared by pause_task, resume_task and cancel_task.
MayControl(task, sourceGroup, isMain) ==
  task # Null /\ (isMain \/ task.group_folder = sourceGroup)

\* ScheduleTask filing the task under the requester's folder.
ScheduleTask_RequesterFolder(data, sourceGroup, isMain, reg, store, id, now) ==
  IF ~(Truthy(data.prompt) /\ Truthy(data.schedule_type)
         /\ TruthyText(data.schedule_value) /\ Truthy(data.targetJid))
    THEN Outcome(store, reg, <<>>, "", FALSE)
  ELSE IF ~Registered(reg, data.targetJid)
    THEN Outcome(store, reg, <<>>, "Cannot schedule task: target group not registered", FALSE)
  ELSE IF ~isMain /\ reg[data.targetJid].folder # sourceGroup
    THEN Outcome(store, reg, <<>>, "Unauthorized schedule_task attempt blocked", FALSE)
  ELSE LET next == NextRun(data.schedule_type, data.schedule_value, now)
       IN  IF ~next.ok
             THEN Outcome(store, reg, <<>>, next.log, FALSE)
             ELSE Outcome(
                    createTask(store,
                      [id |-> id,
                       group_folder |-> sourceGroup,
                       chat_jid |-> data.targetJid,
                       prompt |-> data.prompt,
                       schedule_type |-> data.schedule_type,
                       schedule_value |-> data.schedule_value,
                       context_mode |-> ContextMode(data),
                       next_run |-> next.nextRun,
                       status |-> "active",
                       created_at |-> ToISOString(now)]),
                    reg, <<>>, "Task created via IPC", FALSE)

ScheduleTask(data, sourceGroup, isMain, reg, store, id, now) ==
  IF ~(Truthy(data.prompt) /\ Truthy(data.schedule_type)
         /\ TruthyText(data.schedule_value) /\ Truthy(data.targetJid))
    THEN Outcome(store, reg, <<>>, "", FALSE)
  ELSE IF ~Registered(reg, data.targetJid)
    THEN Outcome(store, reg, <<>>, "Cannot schedule task: target group not registered", FALSE)
  ELSE IF ~isMain /\ reg[data.targetJid].folder # sourceGroup
    THEN Outcome(store, reg, <<>>, "Unauthorized schedule_task attempt blocked", FALSE)
  ELSE LET next == NextRun(data.schedule_type, data.schedule_value, now)
       IN  IF ~next.ok
             THEN Outcome(store, reg, <<>>, next.log, FALSE)
             ELSE Outcome(
                    createTask(store,
                      [id |-> id,
                       group_folder |-> reg[data.targetJid].folder,
                       chat_jid |-> data.targetJid,
                       prompt |-> data.prompt,
                       schedule_type |-> data.schedule_type,
                       schedule_value |-> data.schedule_value,
                       context_mode |-> ContextMode(data),
                       next_run |-> next.nextRun,
                       status |-> "active",
                       created_at |-> ToISOString(now)]),
                    reg, <<>>, "Task created via IPC", FALSE)

\* ControlTask throwing when the task it names is not in the store.
ControlTask_ThrowOnMissing(data, sourceGroup, isMain, reg, store) ==
  IF TruthyText(data.taskId) /\ getTaskById(store, data.taskId) = Null
    THEN Outcome(store, reg, <<>>, "", TRUE)
    ELSE Outcome(store, reg, <<>>, "", FALSE)

\* ControlTask authorizing the folder the task's chat_jid is registered to
\* now instead of the folder stored with the task.
ControlTask_ByRegistry(data, sourceGroup, isMain, reg, store) ==
  LET task == getTaskById(store, data.taskId)
      owns == /\ task # Null
              /\ (isMain \/ (/\ Registered(reg, task.chat_jid)
                              /\ reg[task.chat_jid].folder = sourceGroup))
  IN  IF ~TruthyText(data.taskId)
        THEN Outcome(store, reg, <<>>, "", FALSE)
      ELSE IF ~owns
        THEN Outcome(store, reg, <<>>, "Unauthorized task control attempt", FALSE)
      ELSE CASE data.type = "pause_task" ->
                  Outcome(updateTask(store, data.taskId, "paused"), reg, <<>>,
                          "Task paused via IPC", FALSE)
             [] data.type = "resume_task" ->
                  Outcome(updateTask(store, data.taskId, "active"), reg, <<>>,
                          "Task resumed via IPC", FALSE)
             [] OTHER ->
                  Outcome(deleteTask(store, data.taskId), reg, <<>>,
                          "Task cancelled via IPC", FALSE)

ControlTask(data, sourceGroup, isMain, reg, store) ==
  IF ~TruthyText(data.taskId)
    THEN Outcome(store, reg, <<>>, "", FALSE)
  ELSE IF ~MayControl(getTaskById(store, data.taskId), sourceGroup, isMain)
    THEN Outcome(store, reg, <<>>,
                 CASE data.type = "pause_task" -> "Unauthorized task pause attempt"
                   [] data.type = "resume_task" -> "Unauthorized task resume attempt"
                   [] OTHER -> "Unauthorized task cancel attempt",
                 FALSE)
  ELSE CASE data.type = "pause_task" ->
              Outcome(updateTask(store, data.taskId, "paused"), reg, <<>>,
                      "Task paused via IPC", FALSE)
         [] data.type = "resume_task" ->
              Outcome(updateTask(store, data.taskId, "active"), reg, <<>>,
                      "Task resumed via IPC", FALSE)
         [] OTHER ->
              Outcome(deleteTask(store, data.taskId), reg, <<>>,
                      "Task cancelled via IPC", FALSE)

\* RefreshGroups asking for the available groups before the resync.
RefreshGroups_StaleGroups(sourceGroup, isMain, reg, store, fails) ==
  IF ~isMain
    THEN Outcome(store, reg, <<>>, "Unauthorized refresh_groups attempt blocked", FALSE)
  ELSE IF fails = "await"
    THEN Outcome(store, reg, << <<"getAvailableGroups">>, <<"syncGroupMetadata", TRUE>> >>,
                 "Group metadata refresh requested via IPC", TRUE)
    ELSE Outcome(store, reg,
                 << <<"getAvailableGroups">>,
                    <<"syncGroupMetadata", TRUE>>,
                    <<"writeGroupsSnapshot", sourceGroup, TRUE, "availableGroups",
                      {j \in DOMAIN reg : reg[j] # NoGroup}>> >>,
                 "Group metadata refresh requested via IPC", FALSE)

\* refresh_groups: the awaited deps.syncGroupMetadata(true), then
\* deps.getAvailableGroups() and deps.writeGroupsSnapshot with its result
\* ("availableGroups") and the jids of the registry read at the start of
\* processTaskIpc; a resync that rejects ends the request there.
RefreshGroups(sourceGroup, isMain, reg, store, fails) ==
  IF ~isMain
    THEN Outcome(store, reg, <<>>, "Unauthorized refresh_groups attempt blocked", FALSE)
  ELSE IF fails = "await"
    THEN Outcome(store, reg, << <<"syncGroupMetadata", TRUE>> >>,
                 "Group metadata refresh requested via IPC", TRUE)
    ELSE Outcome(store, reg,
                 << <<"syncGroupMetadata", TRUE>>,
                    <<"getAvailableGroups">>,
                    <<"writeGroupsSnapshot", sourceGroup, TRUE, "availableGroups",
                      {j \in DOMAIN reg : reg[j] # NoGroup}>> >>,
                 "Group metadata refresh requested via IPC", FALSE)

\* RegisterGroup without the test that the requester is main.
RegisterGroup_AnyTenant(data, isMain, reg, store) ==
  IF Truthy(data.jid) /\ Truthy(data.name) /\ Truthy(data.folder) /\ Truthy(data.trigger)
    THEN Outcome(store,
                 registerGroup(reg, data.jid,
                   [name |-> data.name, folder |-> data.folder, trigger |-> data.trigger]),
                 <<>>, "", FALSE)
    ELSE Outcome(store, reg, <<>>,
                 "Invalid register_group request - missing required fields", FALSE)

RegisterGroup(data, isMain, reg, store) ==
  IF ~isMain
    THEN Outcome(store, reg, <<>>, "Unauthorized register_group attempt blocked", FALSE)
  ELSE IF Truthy(data.jid) /\ Truthy(data.name) /\ Truthy(data.folder) /\ Truthy(data.trigger)
    THEN Outcome(store,
                 registerGroup(reg, data.jid,
                   [name |-> data.name, folder |-> data.folder, trigger |-> data.trigger]),
                 <<>>, "", FALSE)
    ELSE Outcome(store, reg, <<>>,
                 "Invalid register_group request - missing required fields", FALSE)

ActionTypes ==
  {"send_gmail", "list_calendar_events", "get_calendar_event",
   "create_calendar_event", "update_calendar_event", "delete_calendar_event"}

\* The required fields of an action request are there: event_id for get,
\* update and delete, summary, start and end for create, none otherwise.
HasRequired(data) ==
  CASE data.type \in {"get_calendar_event", "update_calendar_event",
                      "delete_calendar_event"} -> Truthy(data.event_id)
    [] data.type = "create_calendar_event" ->
         Truthy(data.summary) /\ Truthy(data.start) /\ Truthy(data.end)
    [] OTHER -> TRUE

\* An action handler that serves the main tenant only.
ActionHandler_MainOnly(data, sourceGroup, reg, store, fails) ==
  LET handler == <<"handler", data.type, sourceGroup>>
      api == <<"googleapis", data.type>>
  IN  IF sourceGroup # MAIN_GROUP_FOLDER
        THEN Outcome(store, reg, <<>>, "Unauthorized", FALSE)
      ELSE IF fails = "oauth"
        THEN Outcome(store, reg, <<handler>>, "OAuth not configured", FALSE)
      ELSE IF ~HasRequired(data)
        THEN Outcome(store, reg, <<handler>>, "Missing required fields", FALSE)
      ELSE IF fails = "await"
        THEN Outcome(store, reg, <<handler, api>>, "Failed", FALSE)
        ELSE Outcome(store, reg, <<handler, api>>, "successfully", FALSE)

\* An action handler without its catch block.
ActionHandler_Uncaught(data, sourceGroup, reg, store, fails) ==
  LET handler == <<"handler", data.type, sourceGroup>>
      api == <<"googleapis", data.type>>
  IN  IF fails = "oauth"
        THEN Outcome(store, reg, <<handler>>, "OAuth not configured", FALSE)
      ELSE IF ~HasRequired(data)
        THEN Outcome(store, reg, <<handler>>, "Missing required fields", FALSE)
      ELSE IF fails = "await"
        THEN Outcome(store, reg, <<handler, api>>, "", TRUE)
        ELSE Outcome(store, reg, <<handler, api>>, "successfully", FALSE)

\* processSendGmail, processListCalendarEvents, processGetCalendarEvent,
\* processCreateCalendarEvent, processUpdateCalendarEvent and
\* processDeleteCalendarEvent, called with (data, sourceGroup): the whole body
\* is one try block whose catch only logs.  Without the OAuth files the
\* handler logs and returns; then a missing required field is logged; then
\* the Google API is called, and with fails "await" that call rejects.
ActionHandler(data, sourceGroup, reg, store, fails) ==
  LET handler == <<"handler", data.type, sourceGroup>>
      api == <<"googleapis", data.type>>
  IN  IF fails = "oauth"
        THEN Outcome(store, reg, <<handler>>, "OAuth not configured", FALSE)
      ELSE IF ~HasRequired(data)
        THEN Outcome(store, reg, <<handler>>, "Missing required fields", FALSE)
      ELSE IF fails = "await"
        THEN Outcome(store, reg, <<handler, api>>, "Failed", FALSE)
        ELSE Outcome(store, reg, <<handler, api>>, "successfully", FALSE)

\* processTaskIpc(data, sourceGroup, isMain, deps) on the registry reg and the
\* store, with id the task id it would generate and now the clock; fails is
\* the point where a collaborator fails ("call": deps.registeredGroups at its
\* start throws).  The JSON value null has no fields: reading data.type throws.
processTaskIpc(data, sourceGroup, isMain, reg, store, id, now, fails) ==
  IF data.kind = "null" \/ fails = "call"
    THEN Outcome(store, reg, <<>>, "", TRUE)
  ELSE CASE data.type = "schedule_task" ->
              ScheduleTask(data, sourceGroup, isMain, reg, store, id, now)
         [] data.type \in {"pause_task", "resume_task", "cancel_task"} ->
              ControlTask(data, sourceGroup, isMain, reg, store)
         [] data.type = "refresh_groups" ->
              RefreshGroups(sourceGroup, isMain, reg, store, fails)
         [] data.type = "register_group" ->
              RegisterGroup(data, isMain, reg, store)
         [] data.type \in ActionTypes ->
              ActionHandler(data, sourceGroup, reg, store, fails)
         [] OTHER ->
              Outcome(store, reg, <<>>, "Unknown IPC task type", FALSE)

\* processMessage sending the text as it is.
processMessage_NoPrefix(data, sourceGroup, isMain, registeredGroups, reg, store, fails) ==
  IF data.kind = "null"
    THEN Outcome(store, reg, <<>>, "", TRUE)
  ELSE IF ~(data.type = "message" /\ Truthy(data.chatJid) /\ Truthy(data.text))
    THEN Outcome(store, reg, <<>>, "", FALSE)
  ELSE IF isMain \/ (/\ Registered(registeredGroups, data.chatJid)
                     /\ registeredGroups[data.chatJid].folder = sourceGroup)
    THEN Outcome(store, reg,
                 << <<"sendMessage", data.chatJid, <<data.text>> >> >>,
                 IF fails = "await" THEN "" ELSE "IPC message sent", fails = "await")
    ELSE Outcome(store, reg, <<>>, "Unauthorized IPC message attempt blocked", FALSE)

\* processMessage without the test that the file has a text.
processMessage_NoTextTest(data, sourceGroup, isMain, registeredGroups, reg, store, fails) ==
  IF data.kind = "null"
    THEN Outcome(store, reg, <<>>, "", TRUE)
  ELSE IF ~(data.type = "message" /\ Truthy(data.chatJid))
    THEN Outcome(store, reg, <<>>, "", FALSE)
  ELSE IF isMain \/ (/\ Registered(registeredGroups, data.chatJid)
                     /\ registeredGroups[data.chatJid].folder = sourceGroup)
    THEN Outcome(store, reg,
                 << <<"sendMessage", data.chatJid, <<ASSISTANT_NAME, ": ", data.text>> >> >>,
                 IF fails = "await" THEN "" ELSE "IPC message sent", fails = "await")
    ELSE Outcome(store, reg, <<>>, "Unauthorized IPC message attempt blocked", FALSE)

\* processMessage authorizing every registered target, whoever owns it.
processMessage_AnyRegistered(data, sourceGroup, isMain, registeredGroups, reg, store, fails) ==
  IF data.kind = "null"
    THEN Outcome(store, reg, <<>>, "", TRUE)
  ELSE IF ~(data.type = "message" /\ Truthy(data.chatJid) /\ Truthy(data.text))
    THEN Outcome(store, reg, <<>>, "", FALSE)
  ELSE IF isMain \/ Registered(registeredGroups, data.chatJid)
    THEN Outcome(store, reg,
                 << <<"sendMessage", data.chatJid, <<ASSISTANT_NAME, ": ", data.text>> >> >>,
                 IF fails = "await" THEN "" ELSE "IPC message sent", fails = "await")
    ELSE Outcome(store, reg, <<>>, "Unauthorized IPC message attempt blocked", FALSE)

\* The body of the messages loop for one parsed file: the authorization of
\* lines 75-96 against registeredGroups, the registry read at the start of the
\* cycle; the store and the registry reg are left as they are; with fails
\* "await" deps.sendMessage rejects.
processMessage(data, sourceGroup, isMain, registeredGroups, reg, store, fails) ==
  IF data.kind = "null"
    THEN Outcome(store, reg, <<>>, "", TRUE)
  ELSE IF ~(data.type = "message" /\ Truthy(data.chatJid) /\ Truthy(data.text))
    THEN Outcome(store, reg, <<>>, "", FALSE)
  ELSE IF isMain \/ (/\ Registered(registeredGroups, data.chatJid)
                     /\ registeredGroups[data.chatJid].folder = sourceGroup)
    THEN Outcome(store, reg,
                 << <<"sendMessage", data.chatJid, <<ASSISTANT_NAME, ": ", data.text>> >> >>,
                 IF fails = "await" THEN "" ELSE "IPC message sent", fails = "await")
    ELSE Outcome(store, reg, <<>>, "Unauthorized IPC message attempt blocked", FALSE)

----------------------------------------------------------------------------
(* The state the watcher starts in *)

Group(folder) == [name |-> folder, folder |-> folder, trigger |-> "@Foxy"]

\* The persisted registry: g1 belongs to alpha, g2 to beta, g3 to nobody.
InitGroups == [j \in Jids |-> CASE j = "g1" -> Group("alpha")
                                [] j = "g2" -> Group("beta")
                                [] OTHER -> NoGroup]

PromptText == "p"

IntervalTask(id, jid, folder) ==
  [id |-> id, group_folder |-> folder, chat_jid |-> jid, prompt |-> PromptText,
   schedule_type |-> "interval", schedule_value |-> <<"5">>,
   context_mode |-> "isolated", next_run |-> ToISOString(5), status |-> "active",
   created_at |-> ToISOString(0)]

\* The persisted task store: empty, or one task left by an earlier run and
\* owned by alpha or by beta.
InitStores ==
  { <<>> } \cup { TaskId(0) :> IntervalTask(TaskId(0), "g1", "alpha"),
                  TaskId(0) :> IntervalTask(TaskId(0), "g2", "beta") }

Slots == Tenants \X Channels \X (FileNames \cup TempNames)

Init ==
  /\ ipcWatcherRunning = FALSE
  /\ pc = "stopped"
  /\ timers = 0
  /\ cycles = 0
  /\ cycleGroups = InitGroups
  /\ todo = <<>>
  /\ files = <<>>
  /\ cur = None
  /\ trace = <<>>
  /\ done = NothingDone
  /\ mailbox = [s \in Slots |-> NoFile]
  /\ errors = <<>>
  /\ tasks \in InitStores
  /\ groups = InitGroups
  /\ nextId = 1
  /\ writes = 0
  /\ voice = NoCall

----------------------------------------------------------------------------
(* startIpcWatcher and the poll cycle *)

\* The orders in which readdirSync may list the members of a set of names.
Listings(S) ==
  {q \in [1..Cardinality(S) -> S] : \A i, j \in 1..Cardinality(S) : q[i] = q[j] => i = j}

\* startIpcWatcher without its ipcWatcherRunning test.
StartIpcWatcher_Unguarded ==
  /\ ipcWatcherRunning' = TRUE
  /\ \E mkdirFails \in BOOLEAN :
       IF mkdirFails
         THEN pc' = "failed" /\ timers' = timers
         ELSE pc' = "timer" /\ timers' = timers + 1
  /\ UNCHANGED voice
  /\ UNCHANGED <<cycles, cycleGroups, todo, files, cur, trace, done, mailbox,
                 errors, tasks, groups, nextId, writes>>

\* startIpcWatcher going on to processIpcFiles when the base directory could
\* not be created.
StartIpcWatcher_Degraded ==
  /\ IF ipcWatcherRunning
       THEN UNCHANGED <<ipcWatcherRunning, pc, timers>>
       ELSE /\ ipcWatcherRunning' = TRUE
            /\ \E mkdirFails \in BOOLEAN :
                 IF mkdirFails
                   THEN pc' = "failed" /\ timers' = timers + 1
                   ELSE pc' = "timer" /\ timers' = timers + 1
  /\ UNCHANGED voice
  /\ UNCHANGED <<cycles, cycleGroups, todo, files, cur, trace, done, mailbox,
                 errors, tasks, groups, nextId, writes>>

\* startIpcWatcher: a second start is skipped; ipcWatcherRunning is set, then
\* the base directory is created; when mkdirSync throws the exception leaves
\* startIpcWatcher for its caller (pc "failed") and processIpcFiles is never
\* called; otherwise the first call of processIpcFiles is a timer that is due
\* at once.
StartIpcWatcher ==
  /\ IF ipcWatcherRunning
       THEN UNCHANGED <<ipcWatcherRunning, pc, timers>>
       ELSE /\ ipcWatcherRunning' = TRUE
            /\ \E mkdirFails \in BOOLEAN :
                 IF mkdirFails
                   THEN pc' = "failed" /\ timers' = timers
                   ELSE pc' = "timer" /\ timers' = timers + 1
  /\ UNCHANGED voice
  /\ UNCHANGED <<cycles, cycleGroups, todo, files, cur, trace, done, mailbox,
                 errors, tasks, groups, nextId, writes>>

\* The folder filter taking every directory for a tenant's mailbox.
IsGroupFolder_All(f) == TRUE

\* f !== 'errors' of the base directory scan.
IsGroupFolder(f) == f # ErrorsDir

\* The two channel directories of the listed folders, in processing order.
RECURSIVE ScanPlan(_)
ScanPlan(folders) ==
  IF folders = <<>>
    THEN <<>>
    ELSE << <<Head(folders), "messages">>, <<Head(folders), "tasks">> >>
           \o ScanPlan(Tail(folders))

\* The entries of the base directory.
Entries == Tenants \cup {ErrorsDir}

\* deps.registeredGroups(): all registrations, as they are when it is called.
GetAllRegistrations == groups

\* A pending call of processIpcFiles is due and starts.  The base directory is
\* listed and every entry is examined by statSync; when that throws for an
\* entry (unreadable), the catch block logs, sets the next timer and returns.
\* Otherwise the registry is read once and the folders are gone through.
\* deps.registeredGroups() is called outside any try block: when it throws,
\* the call of processIpcFiles is rejected before it reaches its setTimeout
\* and nothing calls processIpcFiles again (pc "dead").
Poll ==
  /\ timers > 0
  /\ \E unreadable \in {{}} \cup {{e} : e \in Entries}, registryFails \in BOOLEAN :
       IF unreadable # {}
         THEN /\ done' = [fs |-> << <<"statSync", "throws">> >>, entries |-> unreadable]
              /\ UNCHANGED <<timers, cycles, todo, cycleGroups, pc, trace>>
       ELSE IF registryFails
         THEN /\ timers' = timers - 1
              /\ pc' = "dead"
              /\ done' = [fs |-> <<>>, call |-> <<"registeredGroups", "throws">>]
              /\ UNCHANGED <<cycles, todo, cycleGroups, trace>>
         ELSE /\ timers' = timers - 1
              /\ cycles' = cycles + 1
              /\ \E order \in Listings({f \in Entries : IsGroupFolder(f)}) :
                   todo' = ScanPlan(order)
              /\ cycleGroups' = GetAllRegistrations
              /\ pc' = "cycle"
              /\ trace' = <<>>
              /\ done' = NothingDone
  /\ UNCHANGED voice
  /\ UNCHANGED <<ipcWatcherRunning, files, cur, mailbox, errors, tasks, groups,
                 nextId, writes>>

\* readdirSync(dir).filter(endsWith('.json')) of the next channel directory;
\* when it throws, the catch block of the channel logs, no file of the channel
\* is handled and the cycle goes on with the next channel.  A folder that
\* has no such directory (existsSync is false) has nothing listed.  The
\* entries the filter drops (skipped) are not touched.
ListDir ==
  /\ pc = "cycle" /\ cur = None /\ files = <<>> /\ todo # <<>>
  /\ LET f == Head(todo)[1]
         ch == Head(todo)[2]
         entries == IF f \in Tenants
                      THEN {n \in FileNames \cup TempNames : mailbox[<<f, ch, n>>] # NoFile}
                      ELSE {}
         present == {n \in entries : EndsWithJson(n)}
         skipped == entries \ present
     IN  \E readdirFails \in BOOLEAN :
           IF readdirFails
             THEN /\ files' = <<>>
                  /\ trace' = Append(trace, <<"list", f, ch, <<>> >>)
                  /\ done' = [fs |-> << <<"readdirSync", "throws">> >>, dir |-> <<f, ch>>]
             ELSE \E order \in Listings(present) :
                    /\ files' = [i \in 1..Len(order) |-> <<f, ch, order[i]>>]
                    /\ trace' = Append(trace, <<"list", f, ch, order>>)
                    /\ done' = IF skipped = {} THEN NothingDone
                               ELSE [fs |-> <<>>, skipped |-> skipped]
  /\ todo' = Tail(todo)
  /\ UNCHANGED voice
  /\ UNCHANGED <<ipcWatcherRunning, pc, timers, cycles, cycleGroups, cur, mailbox,
                 errors, tasks, groups, nextId, writes>>

\* The end of processIpcFiles: setTimeout(processIpcFiles, IPC_POLL_INTERVAL).
EndCycle ==
  /\ pc = "cycle" /\ cur = None /\ files = <<>> /\ todo = <<>>
  /\ pc' = "timer"
  /\ timers' = timers + 1
  /\ cycles' = cycles - 1
  /\ trace' = <<>>
  /\ done' = NothingDone
  /\ UNCHANGED voice
  /\ UNCHANGED <<ipcWatcherRunning, cycleGroups, todo, files, cur, mailbox,
                 errors, tasks, groups, nextId, writes>>

----------------------------------------------------------------------------
(* One request file: read, parse and execute; then dispose *)

IsMain(sourceGroup) == sourceGroup = MAIN_GROUP_FOLDER

\* Execute taking the identity from the payload's groupFolder when it has one.
Execute_TrustPayload(ch, data, sourceGroup, snapshot, reg, store, id, now, fails) ==
  LET who == IF Truthy(data.groupFolder) THEN data.groupFolder ELSE sourceGroup
  IN  IF ch = "messages"
        THEN processMessage(data, who, IsMain(who), snapshot, reg, store, fails)
        ELSE processTaskIpc(data, who, IsMain(who), reg, store, id, now, fails)

\* Execute reading the registry again for every message file.
Execute_RereadForMessages(ch, data, sourceGroup, snapshot, reg, store, id, now, fails) ==
  IF ch = "messages"
    THEN processMessage(data, sourceGroup, IsMain(sourceGroup), reg, reg, store, fails)
    ELSE processTaskIpc(data, sourceGroup, IsMain(sourceGroup), reg, store, id, now, fails)

\* The execution of a parsed file of channel ch found in sourceGroup's mailbox:
\* messages against the registry read at the start of the cycle (snapshot),
\* tasks against the registry read when the request is processed (reg).
Execute(ch, data, sourceGroup, snapshot, reg, store, id, now, fails) ==
  IF ch = "messages"
    THEN processMessage(data, sourceGroup, IsMain(sourceGroup), snapshot, reg, store, fails)
    ELSE processTaskIpc(data, sourceGroup, IsMain(sourceGroup), reg, store, id, now, fails)

\* The file in flight: where it was found, what was read, what its execution
\* did (before: the store and the registry it started from).
InFlight(slot, data, parsed, out) ==
  [src |-> slot[1], chan |-> slot[2], name |-> slot[3], data |-> data,
   parsed |-> parsed, threw |-> out.threw, calls |-> out.calls, log |-> out.log,
   before |-> [tasks |-> tasks, groups |-> groups]]

\* The try block up to the disposal: readFileSync, JSON.parse and the
\* execution of the request with its awaited dispatch.
BeginFile ==
  /\ pc = "cycle" /\ cur = None /\ files # <<>>
  /\ LET slot == Head(files)
         content == mailbox[slot]
         parsed == JsonParse(content)
     IN  IF content = NoFile \/ parsed.threw
           THEN /\ cur' = InFlight(slot, content, FALSE,
                                   Outcome(tasks, groups, <<>>, "", TRUE))
                /\ UNCHANGED <<tasks, groups, nextId>>
           ELSE \E now \in Instants, fails \in FailPoints :
                  LET out == Execute(slot[2], parsed.data, slot[1], cycleGroups,
                                     GetAllRegistrations, tasks, TaskId(nextId),
                                     now, fails)
                  IN  /\ DOMAIN out.tasks \subseteq {TaskId(n) : n \in 0..MaxTasks}
                      /\ tasks' = out.tasks
                      /\ groups' = out.groups
                      /\ nextId' = IF TaskId(nextId) \in DOMAIN out.tasks
                                     THEN nextId + 1 ELSE nextId
                      /\ cur' = InFlight(slot, parsed.data, TRUE, out)
  /\ trace' = Append(trace, <<"begin">> \o Head(files))
  /\ done' = NothingDone
  /\ UNCHANGED voice
  /\ UNCHANGED <<ipcWatcherRunning, pc, timers, cycles, cycleGroups, todo, files,
                 mailbox, errors, writes>>

\* `${sourceGroup}-${file}` in the errors directory.
ErrorName(sourceGroup, file) == Chars(sourceGroup) \o <<"-">> \o Chars(file)

\* The filesystem calls of the disposal of a file, with their results, given
\* whether its request threw and whether unlinkSync and renameSync fail:
\* unlinkSync ends the try block; the catch block renames into errors/.
FsCalls(threw, unlinkFails, renameFails) ==
  (IF threw THEN <<>>
   ELSE IF unlinkFails THEN << <<"unlinkSync", "throws">> >>
   ELSE << <<"unlinkSync", "ok">> >>)
  \o
  (IF ~threw /\ ~unlinkFails THEN <<>>
   ELSE IF renameFails THEN << <<"renameSync", "throws">> >>
   ELSE << <<"renameSync", "ok">> >>)

Did(fs, call) == \E i \in 1..Len(fs) : fs[i] = call

\* The file names still to handle after a disposal: an exception of the catch
\* block leaves the file loop of the channel.
Remaining(fs, listed) ==
  IF Did(fs, <<"renameSync", "throws">>) THEN <<>> ELSE Tail(listed)

\* fs.unlinkSync(filePath), or the catch block: mkdirSync(errors) and
\* renameSync, which replaces a file that is already at the new path.  Each
\* file of errors/ is kept with the path it was moved from.  done keeps the record of the file with the calls made, whether
\* a file is still at its path, and the file names left to handle.
FinishFile ==
  /\ pc = "cycle" /\ cur # None
  /\ \E unlinkFails, renameFails \in BOOLEAN :
       LET slot == <<cur.src, cur.chan, cur.name>>
           gone == mailbox[slot] = NoFile
           fs == FsCalls(cur.threw, unlinkFails \/ gone, renameFails \/ gone)
       IN  /\ mailbox' = IF Did(fs, <<"unlinkSync", "ok">>) \/ Did(fs, <<"renameSync", "ok">>)
                           THEN [mailbox EXCEPT ![slot] = NoFile]
                           ELSE mailbox
           /\ errors' = IF Did(fs, <<"renameSync", "ok">>)
                          THEN ErrorName(cur.src, cur.name)
                                 :> [data |-> mailbox[slot], from |-> slot] @@ errors
                          ELSE errors
           /\ files' = Remaining(fs, files)
           /\ done' = [file |-> cur, fs |-> fs, inMailbox |-> mailbox'[slot] # NoFile,
                       listed |-> files]
  /\ cur' = None
  /\ trace' = Append(trace, <<"end", cur.src, cur.chan, cur.name>>)
  /\ UNCHANGED voice
  /\ UNCHANGED <<ipcWatcherRunning, pc, timers, cycles, cycleGroups, todo, tasks,
                 groups, nextId, writes>>

----------------------------------------------------------------------------
(* The tenants *)

\* A tenant of who writes (or replaces) a request file named in names in its
\* own mailbox, as long as fewer than max files were written.
Write(who, names, msgs, reqs, max) ==
  /\ writes < max
  /\ \E f \in who, ch \in Channels, n \in names :
       \E p \in (IF ch = "messages" THEN msgs ELSE reqs) :
         mailbox' = [mailbox EXCEPT ![<<f, ch, n>>] = p]
  /\ writes' = writes + 1
  /\ UNCHANGED voice
  /\ UNCHANGED <<ipcWatcherRunning, pc, timers, cycles, cycleGroups, todo, files,
                 cur, trace, done, errors, tasks, groups, nextId>>

Watcher == StartIpcWatcher \/ Poll \/ ListDir \/ BeginFile \/ FinishFile \/ EndCycle

----------------------------------------------------------------------------
(* The request files tenants write in the model *)

Message(jid) == [Blank EXCEPT !.type = "message", !.chatJid = jid, !.text = "hi"]

Schedule(jid, type, value) ==
  [Blank EXCEPT !.type = "schedule_task", !.prompt = PromptText, !.targetJid = jid,
                !.schedule_type = type, !.schedule_value = value]

Control(type, id) == [Blank EXCEPT !.type = type, !.taskId = id]

Refresh == [Blank EXCEPT !.type = "refresh_groups"]

Register(jid, folder) ==
  [Blank EXCEPT !.type = "register_group", !.jid = jid, !.name = folder,
                !.folder = folder, !.trigger = "@Foxy"]

NotText == <<"a", "b", "c">>

\* "1970-01-01T00:00:05Z": an instant written without its milliseconds.
ShortIso == IsoPrefix \o <<"0", "0", ":", "0", "5", "Z">>

Messages == {Message("g1"), Message("g2"), Unparsable}

AuthRequests ==
  {Schedule("g1", "interval", <<"5">>), Schedule("g2", "interval", <<"5">>),
   Control("pause_task", TaskId(0)), Control("resume_task", TaskId(0)),
   Control("cancel_task", TaskId(0)), Refresh, Register("g1", "beta"), Unparsable}

ScheduleRequests ==
  {Schedule("g1", "interval", <<"5">>), Schedule("g1", "interval", <<"0">>),
   Schedule("g1", "interval", NotText), Schedule("g1", "interval", <<"-", "2">>),
   Schedule("g1", "cron", EveryMinute), Schedule("g1", "cron", NotText),
   Schedule("g1", "once", ToISOString(0)), Schedule("g1", "once", NotText),
   Schedule("g1", "once", ShortIso),
   Schedule("g1", "weekly", <<"5">>), Schedule("g3", "interval", <<"5">>),
   Schedule("g2", "interval", <<"5">>), Register("g1", "beta")}

\* Any tenant writes one of the messages or of the authorization requests.
TenantWrite == Write(Tenants, {"a.json"}, Messages, AuthRequests, MaxWrites)

Next == Watcher \/ TenantWrite

Spec == Init /\ [][Next]_vars

\* main changes the registry and alpha sends messages and schedule_task
\* requests for the jids concerned, in the same cycle or not.
SnapshotWrite ==
  \/ Write({"main"}, {"a.json"}, {},
           {Register("g3", "alpha"), Register("g1", "beta")}, MaxRequests)
  \/ Write({"alpha"}, {"a.json"}, {Message("g1"), Message("g3")},
           {Schedule("g1", "interval", <<"5">>), Schedule("g3", "interval", <<"5">>)},
           MaxRequests)

NextSnapshot == Watcher \/ SnapshotWrite

SpecSnapshot == Init /\ [][NextSnapshot]_vars

\* A tenant writes a request under a temporary name, first a part of it,
\* then all of it.
TempWrite ==
  Write(Tenants, TempNames, {Unparsable, Message("g1")},
        {Unparsable, Schedule("g1", "interval", <<"5">>)}, MaxFiles)

\* A tenant renames the temporary file it has finished writing to a.json.
TempRename ==
  /\ writes < MaxFiles
  /\ \E f \in Tenants, ch \in Channels, n \in TempNames :
       /\ mailbox[<<f, ch, n>>] \notin {NoFile, Unparsable}
       /\ mailbox' = [mailbox EXCEPT ![<<f, ch, "a.json">>] = mailbox[<<f, ch, n>>],
                                     ![<<f, ch, n>>] = NoFile]
  /\ writes' = writes + 1
  /\ UNCHANGED voice
  /\ UNCHANGED <<ipcWatcherRunning, pc, timers, cycles, cycleGroups, todo, files,
                 cur, trace, done, errors, tasks, groups, nextId>>

NextTemp == Watcher \/ TempWrite \/ TempRename

SpecTemp == Init /\ [][NextTemp]_vars

\* Any tenant writes a schedule_task request.
ScheduleWrite == Write(Tenants, {"a.json"}, {}, ScheduleRequests, MaxWrites)

NextSchedule == Watcher \/ ScheduleWrite

\* The watcher starts on an empty store, or on one that holds a task of alpha.
InitSchedule == Init /\ \A id \in DOMAIN tasks : tasks[id].group_folder = "alpha"

SpecSchedule == InitSchedule /\ [][NextSchedule]_vars

\* The tenant alpha fills its two channels with several files.
FilesWrite ==
  Write({"alpha"}, FileNames, {Message("g1"), Unparsable},
        {Control("cancel_task", TaskId(0)), Unparsable}, MaxFiles)

NextFiles == Watcher \/ FilesWrite

SpecFiles == Init /\ [][NextFiles]_vars

\* register_group without one of its four required fields.
RegisterWithout(field) == [Register("g3", "alpha") EXCEPT ![field] = ""]

\* The requests about the registry: an overwrite, a new registration,
\* incomplete registrations, and refresh_groups.
RegistryRequests ==
  {Register("g1", "beta"), Register("g3", "alpha"), Refresh}
    \cup {RegisterWithout(f) : f \in {"jid", "name", "folder", "trigger"}}

\* Any tenant writes a request about the registry, or a message.
RegistryWrite ==
  Write(Tenants, {"a.json"}, {Message("g1"), Message("g2"), Message("g3")},
        RegistryRequests, MaxWrites)

NextRegistry == Watcher \/ RegistryWrite

SpecRegistry == Init /\ [][NextRegistry]_vars

\* The requests of a task's life: its creation and the control requests on
\* the stored task and on the one created next.
LifecycleRequests ==
  {Schedule("g1", "interval", <<"5">>), Control("pause_task", TaskId(0)),
   Control("resume_task", TaskId(0)), Control("cancel_task", TaskId(0)),
   Control("cancel_task", TaskId(1))}

\* Any tenant writes requests of a task's life, one after the other.
LifecycleWrite == Write(Tenants, {"a.json"}, {}, LifecycleRequests, MaxRequests)

NextLifecycle == Watcher \/ LifecycleWrite

\* The watcher starts on a persisted store that holds a task.
InitLifecycle == Init /\ tasks # <<>>

SpecLifecycle == InitLifecycle /\ [][NextLifecycle]_vars

\* main registers the jid of a stored task to another folder and alpha sends
\* control requests for the task.
ReownWrite ==
  \/ Write({"main"}, {"a.json"}, {},
           {Register("g1", "beta"), Register("g2", "alpha")}, MaxRequests)
  \/ Write({"alpha"}, {"a.json"}, {},
           {Control("pause_task", TaskId(0)), Control("resume_task", TaskId(0)),
            Control("cancel_task", TaskId(0))}, MaxRequests)

NextReown == Watcher \/ ReownWrite

SpecReown == InitLifecycle /\ [][NextReown]_vars

\* alpha sends control requests for the stored task, several in a cycle or
\* one after the other.
ControlWrite ==
  Write({"alpha"}, FileNames, {},
        {Control("pause_task", TaskId(0)), Control("resume_task", TaskId(0)),
         Control("cancel_task", TaskId(0))}, MaxFiles)

NextControl == Watcher \/ ControlWrite

SpecControl == InitLifecycle /\ [][NextControl]_vars

\* An action request with every field a handler requires, which also names
\* main as its group.
Action(type) ==
  [Blank EXCEPT !.type = type, !.event_id = "e1", !.summary = "s", !.start = "t0",
                !.end = "t1", !.groupFolder = "main"]

\* The six action requests, and two that lack a required field.
ActionRequests ==
  {Action(t) : t \in ActionTypes}
    \cup {[Action("get_calendar_event") EXCEPT !.event_id = ""],
          [Action("create_calendar_event") EXCEPT !.summary = ""]}

\* Any tenant writes an action request.
ActionWrite == Write(Tenants, {"a.json"}, {}, ActionRequests, MaxWrites)

NextActions == Watcher \/ ActionWrite

SpecActions == Init /\ [][NextActions]_vars

\* schedule_task requests with context_mode group, isolated, another text,
\* and none.
ContextRequests ==
  {[Schedule("g1", "interval", <<"5">>) EXCEPT !.context_mode = c] :
     c \in {"group", "isolated", "Group", ""}}

\* Any tenant writes a schedule_task request with some context_mode.
ContextWrite == Write(Tenants, {"a.json"}, {}, ContextRequests, MaxWrites)

NextContext == Watcher \/ ContextWrite

SpecContext == Init /\ [][NextContext]_vars

\* Files that parse and lack something: a message without chatJid, without
\* text, or of another type.
IncompleteMessages ==
  {[Message("g1") EXCEPT !.chatJid = ""], [Message("g1") EXCEPT !.text = ""],
   [Message("g1") EXCEPT !.type = "note"]}

\* schedule_task without prompt, schedule_type, schedule_value or targetJid,
\* a control request without taskId, and a type processTaskIpc does not know.
IncompleteRequests ==
  {[Schedule("g1", "interval", <<"5">>) EXCEPT ![f] = ""] :
     f \in {"prompt", "schedule_type", "targetJid"}}
    \cup {Schedule("g1", "interval", <<>>)}
    \cup {Control(t, <<>>) : t \in {"pause_task", "resume_task", "cancel_task"}}
    \cup {[Blank EXCEPT !.type = "frobnicate"]}

\* Any tenant writes an incomplete file, or a complete message or
\* schedule_task.
ShapeWrite ==
  Write(Tenants, {"a.json"}, IncompleteMessages \cup {Message("g1")},
        IncompleteRequests \cup {Schedule("g1", "interval", <<"5">>)}, MaxWrites)

NextShape == Watcher \/ ShapeWrite

SpecShape == Init /\ [][NextShape]_vars

----------------------------------------------------------------------------
(* transcription.ts *)

\* JavaScript values the transcription code handles: a string (its
\* characters), undefined, null.
JsString(chars) == [type |-> "string", chars |-> chars]

JsUndefined == [type |-> "undefined", chars |-> <<>>]

JsNull == [type |-> "null", chars |-> <<>>]

\* !value for these values: the empty string, undefined and null are falsy.
Falsy(value) == value.type # "string" \/ value.chars = <<>>

\* '[Voice Message - transcription unavailable]'
DefaultFallback ==
  <<"[", "V", "o", "i", "c", "e", " ", "M", "e", "s", "s", "a", "g", "e",
    " ", "-", " ", "t", "r", "a", "n", "s", "c", "r", "i", "p", "t", "i",
    "o", "n", " ", "u", "n", "a", "v", "a", "i", "l", "a", "b", "l", "e",
    "]">>

\* The content of .transcription.config.json.  kind: "missing" when the file
\* cannot be read, "bad" when it does not parse, "null" when it holds the JSON
\* text null, "object" otherwise; enabled is the truthiness of its enabled
\* field; openaiKey and groqKey are "" when the provider's section or its
\* apiKey is absent or empty; fallbackMessage is undefined when absent.
ConfigFile(kind, enabled, provider, openaiKey, groqKey, fallbackMessage) ==
  [kind |-> kind, enabled |-> enabled, provider |-> provider,
   openaiKey |-> openaiKey, groqKey |-> groqKey, fallbackMessage |-> fallbackMessage]

\* loadConfig: JSON.parse of the file, or the defaults when reading or
\* parsing throws.
loadConfig(file) ==
  IF file.kind \in {"missing", "bad"}
    THEN ConfigFile("object", FALSE, "openai", "", "", JsString(DefaultFallback))
    ELSE file

WhiteSpace == {" ", "\t", "\n"}

RECURSIVE TrimStart(_)
TrimStart(chars) ==
  IF chars # <<>> /\ Head(chars) \in WhiteSpace THEN TrimStart(Tail(chars)) ELSE chars

RECURSIVE TrimEnd(_)
TrimEnd(chars) ==
  IF chars # <<>> /\ chars[Len(chars)] \in WhiteSpace
    THEN TrimEnd(SubSeq(chars, 1, Len(chars) - 1))
    ELSE chars

\* String.prototype.trim
Trim(chars) == TrimEnd(TrimStart(chars))

\* What a call of transcribeAudio leaves behind: how it ended ("returned" or
\* "rejected"), the value it returned, the provider calls it made.
Transcribed(result, value, calls) == [result |-> result, value |-> value, calls |-> calls]

\* transcribeWithOpenAI and transcribeWithGroq for a provider whose API key
\* is apiKey: null without a key; otherwise the provider is called and its
\* text returned, or null when the call throws (answer.kind = "throws").
transcribeWith(provider, apiKey, answer) ==
  IF apiKey = ""
    THEN [value |-> JsNull, calls |-> <<>>]
  ELSE IF answer.kind = "throws"
    THEN [value |-> JsNull, calls |-> <<provider>>]
    ELSE [value |-> JsString(answer.chars), calls |-> <<provider>>]

\* transcribeAudio(audioBuffer, source) with the configuration file as it is
\* and the provider answering with answer.  config.enabled is read outside
\* the try block: when loadConfig returns null the property access throws and
\* the promise is rejected.
transcribeAudio(file, answer) ==
  IF file.kind = "null"
    THEN Transcribed("rejected", JsUndefined, <<>>)
  ELSE LET config == loadConfig(file)
       IN  IF ~config.enabled
             THEN Transcribed("returned", config.fallbackMessage, <<>>)
           ELSE IF config.provider \notin {"openai", "groq"}
             THEN Transcribed("returned", config.fallbackMessage, <<>>)
           ELSE LET got == IF config.provider = "openai"
                             THEN transcribeWith("openai", config.openaiKey, answer)
                             ELSE transcribeWith("groq", config.groqKey, answer)
                IN  IF Falsy(got.value)
                      THEN Transcribed("returned", config.fallbackMessage, got.calls)
                      ELSE Transcribed("returned", JsString(Trim(got.value.chars)),
                                       got.calls)

\* The configuration files of the model.
ConfigFiles ==
  {ConfigFile(k, FALSE, "", "", "", JsUndefined) : k \in {"missing", "bad", "null"}}
    \cup {ConfigFile("object", e, p, ok, gk, fb) :
            e \in BOOLEAN, p \in {"openai", "groq", "azure"},
            ok \in {"", "sk-1"}, gk \in {"", "gsk-1"},
            fb \in {JsString(<<"[", "V", "]">>), JsUndefined}}

\* What the provider's API may answer: a text, or an exception.
Answers ==
  {[kind |-> "text", chars |-> t] :
     t \in {<<"h", "i">>, <<" ", "h", "i", "\n">>, <<>>, <<" ">>}}
    \cup {[kind |-> "throws", chars |-> <<>>]}

\* A voice message arrives and is transcribed.
TranscribeAudio ==
  /\ \E file \in ConfigFiles, answer \in Answers :
       voice' = [file |-> file, answer |-> answer] @@ transcribeAudio(file, answer)
  /\ UNCHANGED <<ipcWatcherRunning, pc, timers, cycles, cycleGroups, todo, files,
                 cur, trace, done, mailbox, errors, tasks, groups, nextId, writes>>

NextVoice == TranscribeAudio

SpecVoice == Init /\ [][NextVoice]_vars

----------------------------------------------------------------------------
(* Vocabulary of the properties *)

\* The registry view a channel is authorized against: the one read at the
\* start of the cycle for messages, the one read when the request is
\* processed for tasks.
RegistryView(f) == IF f.chan = "messages" THEN cycleGroups ELSE f.before.groups

\* The folder jid is registered to in reg ("" when it is not registered).
OwnerOf(reg, jid) ==
  IF jid \in Jids /\ reg[jid].folder # "" THEN reg[jid].folder ELSE ""

SendCalls(calls) == {i \in 1..Len(calls) : calls[i][1] = "sendMessage"}

\* The tasks the execution of the file in flight has added to the store.
Created(f) == DOMAIN tasks \ DOMAIN f.before.tasks

CompleteMessage(d) == d.type = "message" /\ d.chatJid # "" /\ d.text # ""

CompleteSchedule(d) ==
  /\ d.type = "schedule_task" /\ d.prompt # "" /\ d.schedule_type # ""
  /\ d.schedule_value # <<>> /\ d.targetJid # ""

\* The file in flight was parsed and its request carried out.
Executing == cur # None /\ cur.parsed

----------------------------------------------------------------------------
(* C1: identity integrity *)

\* C1: when a file found in the mailbox of a tenant S other than main is a
\* message whose chatJid, or a schedule_task whose targetJid, is registered to
\* a folder other than S (in the registry view the watcher authorizes that
\* channel against), sendMessage is not called and no Task is created.
C1_IdentityIntegrity ==
  Executing /\ cur.src # "main" =>
    /\ ( /\ cur.chan = "messages" /\ cur.data.type = "message"
         /\ OwnerOf(RegistryView(cur), cur.data.chatJid) \notin {"", cur.src}
         => SendCalls(cur.calls) = {} /\ tasks = cur.before.tasks )
    /\ ( /\ cur.chan = "tasks" /\ cur.data.type = "schedule_task"
         /\ OwnerOf(RegistryView(cur), cur.data.targetJid) \notin {"", cur.src}
         => SendCalls(cur.calls) = {} /\ tasks = cur.before.tasks )

\* alpha asked for a message to a jid that belongs to beta.
C1_Witness ==
  /\ Executing /\ cur.src = "alpha" /\ cur.chan = "messages"
  /\ CompleteMessage(cur.data)
  /\ OwnerOf(cycleGroups, cur.data.chatJid) = "beta"
  /\ cur.calls = <<>>

----------------------------------------------------------------------------
(* C3: main override *)

\* C3: a request found in main's mailbox is not refused on ownership grounds:
\* a complete message to a registered jid is sent, a complete schedule_task
\* with a computable next run for a registered jid creates a Task, and a
\* pause_task, resume_task or cancel_task naming a stored task takes effect,
\* whichever folder owns the jid or the task.
C3_MainOverride ==
  Executing /\ cur.src = "main" =>
    /\ ( /\ cur.chan = "messages" /\ CompleteMessage(cur.data)
         /\ OwnerOf(RegistryView(cur), cur.data.chatJid) # ""
         => SendCalls(cur.calls) # {} )
    /\ ( /\ cur.chan = "tasks" /\ CompleteSchedule(cur.data) /\ ~cur.threw
         /\ OwnerOf(RegistryView(cur), cur.data.targetJid) # ""
         /\ NextRun(cur.data.schedule_type, cur.data.schedule_value, 0).ok
         => Created(cur) # {} )
    /\ ( /\ cur.chan = "tasks" /\ ~cur.threw
         /\ cur.data.taskId \in DOMAIN cur.before.tasks
         => /\ cur.data.type = "pause_task" => tasks[cur.data.taskId].status = "paused"
            /\ cur.data.type = "resume_task" => tasks[cur.data.taskId].status = "active"
            /\ cur.data.type = "cancel_task" => cur.data.taskId \notin DOMAIN tasks )

\* main paused a task that belongs to beta.
C3_Witness ==
  /\ Executing /\ cur.src = "main" /\ cur.data.type = "pause_task"
  /\ cur.data.taskId \in DOMAIN cur.before.tasks
  /\ cur.before.tasks[cur.data.taskId].group_folder = "beta"
  /\ cur.before.tasks[cur.data.taskId].status = "active"
  /\ tasks[cur.data.taskId].status = "paused"

----------------------------------------------------------------------------
(* C2: identity and privilege come from the directory name only *)

\* The contents that differ from d at most in identity-like fields that are
\* not the target of the request: groupFolder, chatJid in a task file,
\* targetJid in a message file, jid and folder in a request that is no
\* register_group.
Spoofed(ch, d) ==
  {[d EXCEPT !.groupFolder = gf,
             !.chatJid = IF ch = "tasks" /\ cj # "" THEN cj ELSE @,
             !.targetJid = IF ch = "messages" /\ cj # "" THEN cj ELSE @,
             !.jid = IF d.type # "register_group" /\ cj # "" THEN cj ELSE @,
             !.folder = IF d.type # "register_group" /\ gf # "" THEN gf ELSE @] :
     gf \in {"", "main", "beta"}, cj \in {"", "g2"}}

\* C2: the sourceGroup of a file is the directory it was found in and it is
\* main exactly when that directory is MAIN_GROUP_FOLDER: what the execution
\* of the file in flight did (store, registry, collaborator calls, log line,
\* exception) is what the request does for that directory name, and a file
\* of the same directory that differs only in identity-like fields that are
\* not the target has the same outcome from the same state.
C2_IdentityFromDirectory ==
  Executing =>
    \A v \in Spoofed(cur.chan, cur.data) :
      \E now \in Instants, fails \in FailPoints :
        LET out == Execute(cur.chan, v, cur.src, cycleGroups, cur.before.groups,
                           cur.before.tasks, TaskId(nextId - Cardinality(Created(cur))),
                           now, fails)
        IN  /\ out.tasks = tasks /\ out.groups = groups
            /\ out.calls = cur.calls /\ out.log = cur.log /\ out.threw = cur.threw

\* alpha was refused a schedule_task for a jid of beta: a payload naming main
\* or beta as its group would matter if it were trusted.
C2_Witness ==
  /\ Executing /\ cur.src = "alpha" /\ CompleteSchedule(cur.data)
  /\ OwnerOf(cur.before.groups, cur.data.targetJid) = "beta"
  /\ ~cur.threw /\ tasks = cur.before.tasks

----------------------------------------------------------------------------
(* Disposal of request files: C4 to C7 *)

\* A file has just been handled: done holds its record.
Handled == "file" \in DOMAIN done

Deleted == Did(done.fs, <<"unlinkSync", "ok">>)

\* The file was renamed into errors/ under `${sourceGroup}-${file}`.
Quarantined ==
  /\ Did(done.fs, <<"renameSync", "ok">>)
  /\ Chars(done.file.src) \o <<"-">> \o Chars(done.file.name) \in DOMAIN errors

\* The request of the handled file changed nothing and called nobody.
NoEffect ==
  /\ done.file.calls = <<>>
  /\ tasks = done.file.before.tasks
  /\ groups = done.file.before.groups

\* C4: every file the watcher has processed is, at the end of its processing
\* step, either deleted or moved to errors/, never both, and no file is left
\* at its path in the mailbox, whether or not unlinkSync or renameSync fail.
C4_DisposedExactlyOnce ==
  Handled => /\ Deleted \/ Quarantined
             /\ ~(Deleted /\ Quarantined)
             /\ ~done.inMailbox

\* C6: a file whose content does not parse is moved to errors/ under
\* T-<filename>, nothing is executed for it, and the file loop goes on with
\* the next listed file of the channel.
C6_ParseFailureQuarantined ==
  Handled /\ ~done.file.parsed =>
    /\ Quarantined /\ ~Deleted /\ ~done.inMailbox
    /\ NoEffect
    /\ files = Tail(done.listed)

\* C7: a request whose execution throws has its file moved to errors/ and
\* not deleted, and no file stays in the mailbox to be executed again.
C7_ThrowQuarantined ==
  Handled /\ done.file.parsed /\ done.file.threw =>
    Quarantined /\ ~Deleted /\ ~done.inMailbox

----------------------------------------------------------------------------
(* C5: a denied request is dropped *)

\* The Authorization Gate's rules refuse the request of file record f.
GateDenies(f) ==
  LET d == f.data
      owner == OwnerOf(RegistryView(f), IF f.chan = "messages" THEN d.chatJid
                                                               ELSE d.targetJid)
  IN  \/ f.chan = "messages" /\ CompleteMessage(d)
           /\ f.src # "main" /\ owner # f.src
      \/ f.chan = "tasks" /\ CompleteSchedule(d)
           /\ (owner = "" \/ (f.src # "main" /\ owner # f.src))
      \/ f.chan = "tasks" /\ d.type \in {"pause_task", "resume_task", "cancel_task"}
           /\ d.taskId # <<>>
           /\ \/ d.taskId \notin DOMAIN f.before.tasks
              \/ f.src # "main" /\ f.before.tasks[d.taskId].group_folder # f.src
      \/ f.chan = "tasks" /\ d.type \in {"refresh_groups", "register_group"}
           /\ f.src # "main"

DeniedRequest == Handled /\ done.file.parsed /\ ~done.file.threw /\ GateDenies(done.file)

----------------------------------------------------------------------------
(* Scheduling: C8 to C10 *)

ScheduleTypes == {"cron", "interval", "once"}

\* The descriptors the specification calls invalid: a cron text that is no
\* cron expression, an interval of 0, of "abc" or negative, a once text that
\* is no timestamp.
InvalidDescriptor(d) ==
  \/ d.schedule_type = "cron" /\ d.schedule_value = NotText
  \/ d.schedule_type = "interval" /\ d.schedule_value \in {<<"0">>, NotText, <<"-", "2">>}
  \/ d.schedule_type = "once" /\ d.schedule_value = NotText

ValidDescriptor(d) ==
  \/ d.schedule_type = "cron" /\ d.schedule_value = EveryMinute
  \/ d.schedule_type = "interval" /\ d.schedule_value = <<"5">>
  \/ d.schedule_type = "once" /\ d.schedule_value \in {ToISOString(0), ShortIso}

\* C8: every task of the store has schedule_type cron, interval or once and a
\* next_run that is not null; a schedule_task request whose schedule_type is
\* none of the three, or whose descriptor is invalid, creates no task.
C8_TaskStoreInvariant ==
  /\ \A id \in DOMAIN tasks :
       tasks[id].schedule_type \in ScheduleTypes /\ tasks[id].next_run # Null
  /\ Executing /\ cur.chan = "tasks" /\ CompleteSchedule(cur.data)
       /\ (cur.data.schedule_type \notin ScheduleTypes \/ InvalidDescriptor(cur.data))
       => Created(cur) = {}

InvalidSchedule ==
  /\ Handled /\ done.file.parsed /\ done.file.chan = "tasks"
  /\ CompleteSchedule(done.file.data) /\ InvalidDescriptor(done.file.data)

C10_ScheduleTaskCreation ==
  Executing /\ cur.chan = "tasks" /\ cur.data.type = "schedule_task" =>
    LET d == cur.data
        owner == OwnerOf(cur.before.groups, d.targetJid)
        allowed == owner # "" /\ (cur.src = "main" \/ cur.src = owner)
        new == Created(cur)
    IN  /\ new # {} => allowed
        /\ Cardinality(new) <= 1
        /\ \A id \in new : /\ tasks[id].group_folder = owner
                           /\ tasks[id].chat_jid = d.targetJid
                           /\ tasks[id].status = "active"
        /\ CompleteSchedule(d) /\ ValidDescriptor(d) /\ allowed /\ ~cur.threw
             => Cardinality(new) = 1
        /\ \A id \in DOMAIN cur.before.tasks :
             id \in DOMAIN tasks /\ tasks[id] = cur.before.tasks[id]

\* main scheduled a task for a jid registered to alpha: the task belongs to
\* alpha, not to main.
C10_Witness ==
  /\ Executing /\ cur.src = "main" /\ CompleteSchedule(cur.data)
  /\ OwnerOf(cur.before.groups, cur.data.targetJid) = "alpha"
  /\ \E id \in Created(cur) : tasks[id].group_folder = "alpha" /\ tasks[id].status = "active"

----------------------------------------------------------------------------
(* C11: the schedule calculator *)

\* The milliseconds an interval text of the model stands for.
IntervalOf(text) == CASE text = <<"5">> -> 5

\* The instant a once text of the model stands for.
InstantOf(text) == CASE text = ToISOString(0) -> 0
                     [] text = ShortIso -> 5000

\* C11: a task created for an interval of n > 0 has next_run = now + n
\* milliseconds, now being the clock when the request is processed; a task
\* created for once has as next_run the instant of schedule_value itself,
\* whether or not that instant is before now.
C11_ScheduleCalculator ==
  Executing /\ cur.chan = "tasks" /\ CompleteSchedule(cur.data) =>
    \A id \in Created(cur) :
      LET t == tasks[id]
      IN  /\ t.schedule_type = "interval" =>
               \E now \in Instants :
                 /\ t.created_at = ToISOString(now)
                 /\ t.next_run = ToISOString(now + IntervalOf(t.schedule_value))
          /\ t.schedule_type = "once" =>
               t.next_run = ToISOString(InstantOf(t.schedule_value))

\* A once request for instant 0 processed at 59999 made a task due at 0.
C11_Witness ==
  /\ Executing /\ CompleteSchedule(cur.data) /\ cur.data.schedule_type = "once"
  /\ \E id \in Created(cur) : /\ tasks[id].created_at = ToISOString(59999)
                              /\ tasks[id].next_run = ToISOString(0)

\* An interval request of 5 processed at 59999 made a task due at 60004.
C11_WitnessInterval ==
  /\ Executing /\ CompleteSchedule(cur.data) /\ cur.data.schedule_type = "interval"
  /\ \E id \in Created(cur) : /\ tasks[id].created_at = ToISOString(59999)
                              /\ tasks[id].next_run = ToISOString(60004)

----------------------------------------------------------------------------
(* C12 and C13: who may pause, resume and cancel *)

ControlTypes == {"pause_task", "resume_task", "cancel_task"}

\* The file handled last held a parsed pause, resume or cancel request.
ControlHandled ==
  /\ Handled /\ done.file.parsed /\ done.file.chan = "tasks"
  /\ done.file.data.type \in ControlTypes

\* The task the request names belonged, before it, to another folder than the
\* non-main requester's.
ForeignTask ==
  /\ done.file.src # "main"
  /\ done.file.data.taskId \in DOMAIN done.file.before.tasks
  /\ done.file.before.tasks[done.file.data.taskId].group_folder # done.file.src

DroppedCleanly == Deleted /\ ~Quarantined /\ ~done.inMailbox

NothingThrew == ~done.file.threw /\ ~Did(done.fs, <<"unlinkSync", "throws">>)

MissingTask ==
  /\ done.file.data.taskId # <<>>
  /\ done.file.data.taskId \notin DOMAIN done.file.before.tasks

\* Carrying out the handled request on the state it found, with every
\* collaborator answering, does not throw.
RunsWithoutThrow ==
  \A now \in Instants :
    ~Execute(done.file.chan, done.file.data, done.file.src, cycleGroups,
             done.file.before.groups, done.file.before.tasks,
             TaskId(nextId), now, "none").threw

----------------------------------------------------------------------------
(* C14: the life of a task *)

\* The task ids of the model.
TaskIds == {TaskId(n) : n \in 0..MaxTasks}

\* An id the watcher has issued (or found in the persisted store) before.
Issued(id) == id[2] < nextId

\* Every stored task is active or paused and carries an issued id; the
\* control request in flight, when its gate allows it, left its task paused,
\* active or removed.
LifecycleStates ==
  /\ \A id \in DOMAIN tasks : tasks[id].status \in {"active", "paused"} /\ Issued(id)
  /\ Executing /\ ~cur.threw /\ cur.chan = "tasks" /\ cur.data.type \in ControlTypes
       /\ cur.data.taskId \in DOMAIN cur.before.tasks
       /\ (cur.src = "main" \/ cur.before.tasks[cur.data.taskId].group_folder = cur.src)
       => CASE cur.data.type = "pause_task" ->
                 cur.data.taskId \in DOMAIN tasks /\ tasks[cur.data.taskId].status = "paused"
            [] cur.data.type = "resume_task" ->
                 cur.data.taskId \in DOMAIN tasks /\ tasks[cur.data.taskId].status = "active"
            [] OTHER -> cur.data.taskId \notin DOMAIN tasks

\* A step never brings back an issued id the store no longer holds, and a
\* request naming such an id changes neither the store nor the registry and
\* calls nobody.
LifecycleStep ==
  /\ \A id \in TaskIds :
       Issued(id) /\ id \notin DOMAIN tasks => id \notin DOMAIN tasks'
  /\ cur = None /\ cur' # None /\ cur'.parsed /\ cur'.chan = "tasks"
       /\ cur'.data.type \in ControlTypes /\ cur'.data.taskId # <<>>
       /\ Issued(cur'.data.taskId) /\ cur'.data.taskId \notin DOMAIN tasks
       => tasks' = tasks /\ groups' = groups /\ cur'.calls = <<>>

\* C14: in every reachable state each stored task is active or paused; an
\* authorized pause_task leaves it paused, an authorized resume_task active,
\* an authorized cancel_task removes it; and a removed task id never exists
\* again, nor does a later request change anything on its behalf.
C14_TaskLifecycle == []LifecycleStates /\ [][LifecycleStep]_vars

\* The stored task was cancelled and a later schedule_task has just created a
\* task under another id.
C14_Witness ==
  /\ Executing /\ cur.data.type = "schedule_task" /\ Created(cur) = {TaskId(1)}
  /\ TaskId(0) \notin DOMAIN tasks /\ tasks[TaskId(1)].status = "active"

----------------------------------------------------------------------------
(* C15: what a request may change of a stored task *)

\* A step changes of a stored task at most its status, and that only for the
\* task a pause_task or resume_task request in flight names; a stored task
\* goes away only by the cancel_task request that names it.
TaskFrame ==
  \A id \in DOMAIN tasks :
    IF id \in DOMAIN tasks'
      THEN /\ [tasks'[id] EXCEPT !.status = tasks[id].status] = tasks[id]
           /\ tasks'[id].status # tasks[id].status =>
                /\ cur' # None /\ cur'.parsed /\ cur'.chan = "tasks"
                /\ cur'.data.type \in {"pause_task", "resume_task"}
                /\ cur'.data.taskId = id
      ELSE /\ cur' # None /\ cur'.parsed /\ cur'.chan = "tasks"
           /\ cur'.data.type = "cancel_task" /\ cur'.data.taskId = id

\* C15: group_folder, chat_jid, prompt, schedule_type, schedule_value,
\* context_mode, next_run and created_at of a stored task never change;
\* pause_task and resume_task change its status only, and no request of
\* another type changes a stored task.
C15_TaskFrame == [][TaskFrame]_vars

\* alpha paused its own task: the status changed, the other fields did not.
C15_Witness ==
  /\ Executing /\ cur.src = "alpha" /\ cur.data.type = "pause_task"
  /\ cur.data.taskId \in DOMAIN cur.before.tasks /\ cur.data.taskId \in DOMAIN tasks
  /\ cur.before.tasks[cur.data.taskId].status = "active"
  /\ tasks[cur.data.taskId] = [cur.before.tasks[cur.data.taskId] EXCEPT !.status = "paused"]

----------------------------------------------------------------------------
(* C16 and C17: register_group *)

RegisterHandled ==
  /\ Handled /\ done.file.parsed /\ done.file.chan = "tasks"
  /\ done.file.data.type = "register_group"

\* jid, name, folder and trigger are all present in the request d.
CompleteRegister(d) == d.jid # "" /\ d.name # "" /\ d.folder # "" /\ d.trigger # ""

RegisteredAs(reg, d) ==
  [j \in Jids |-> IF j = d.jid
                    THEN [name |-> d.name, folder |-> d.folder, trigger |-> d.trigger]
                    ELSE reg[j]]

C17_WitnessIncomplete ==
  /\ RegisterHandled /\ done.file.src = "main" /\ done.file.data.trigger = ""
  /\ done.file.data.jid = "g3" /\ ~Registered(groups, "g3") /\ DroppedCleanly

----------------------------------------------------------------------------
(* C18: refresh_groups *)

RefreshInFlight ==
  Executing /\ cur.chan = "tasks" /\ cur.data.type = "refresh_groups"

\* The positions in calls of the calls of collaborator name.
CallsOf(calls, name) == {i \in 1..Len(calls) : calls[i][1] = name}

\* C18: refresh_groups from a non-main tenant calls neither syncGroupMetadata
\* nor writeGroupsSnapshot; from main it calls syncGroupMetadata(true) first,
\* and when that has finished asks for the available groups and writes one
\* snapshot, for main as requester, with them and the registered jids; no
\* snapshot is written when the resync did not finish.
C18_RefreshGroups ==
  RefreshInFlight =>
    IF cur.src # "main"
      THEN /\ CallsOf(cur.calls, "syncGroupMetadata") = {}
           /\ CallsOf(cur.calls, "writeGroupsSnapshot") = {}
      ELSE /\ ~cur.threw =>
                /\ Len(cur.calls) = 3
                /\ cur.calls[1] = <<"syncGroupMetadata", TRUE>>
                /\ cur.calls[2] = <<"getAvailableGroups">>
                /\ cur.calls[3] = <<"writeGroupsSnapshot", "main", TRUE, "availableGroups",
                                    {j \in Jids : cur.before.groups[j] # NoGroup}>>
           /\ cur.threw => CallsOf(cur.calls, "writeGroupsSnapshot") = {}
           /\ \A i \in CallsOf(cur.calls, "syncGroupMetadata") : i = 1

\* main's refresh_groups ran to its end: resync, then one snapshot.
C18_Witness ==
  /\ RefreshInFlight /\ cur.src = "main" /\ ~cur.threw
  /\ Cardinality(CallsOf(cur.calls, "writeGroupsSnapshot")) = 1
  /\ cur.log = "Group metadata refresh requested via IPC"

\* main's resync was rejected: no snapshot.
C18_WitnessRejected ==
  /\ RefreshInFlight /\ cur.src = "main" /\ cur.threw
  /\ cur.calls = << <<"syncGroupMetadata", TRUE>> >>

\* alpha's refresh_groups was refused.
C18_WitnessDenied ==
  /\ RefreshInFlight /\ cur.src = "alpha" /\ cur.calls = <<>>
  /\ cur.log = "Unauthorized refresh_groups attempt blocked"

----------------------------------------------------------------------------
(* C19: sending a message *)

MessageHandled ==
  /\ Handled /\ done.file.parsed /\ done.file.chan = "messages"
  /\ CompleteMessage(done.file.data)

\* The requester of the handled message is main or the folder its chatJid is
\* registered to in the registry the cycle reads.
MaySend ==
  \/ done.file.src = "main"
  \/ OwnerOf(RegistryView(done.file), done.file.data.chatJid) = done.file.src

\* C19: for a file {type: message, chatJid, text}, sendMessage is called
\* exactly once, with chatJid and the assistant's name, ": " and the text, if
\* the requester is main or the folder chatJid is registered to, and is not
\* called otherwise; in both cases the file is deleted when nothing threw.
C19_MessageSend ==
  MessageHandled =>
    /\ IF MaySend
         THEN done.file.calls =
                << <<"sendMessage", done.file.data.chatJid,
                     <<ASSISTANT_NAME, ": ", done.file.data.text>> >> >>
         ELSE done.file.calls = <<>>
    /\ NothingThrew => DroppedCleanly

\* alpha's message to its own chat was sent once and its file is gone.
C19_Witness ==
  /\ MessageHandled /\ done.file.src = "alpha" /\ done.file.data.chatJid = "g1"
  /\ Len(done.file.calls) = 1 /\ done.file.calls[1][3] = <<"Foxy", ": ", "hi">>
  /\ NothingThrew /\ DroppedCleanly

\* main's message to a chat that is not registered was sent.
C19_WitnessMain ==
  /\ MessageHandled /\ done.file.src = "main" /\ done.file.data.chatJid = "g3"
  /\ ~Registered(cycleGroups, "g3") /\ Len(done.file.calls) = 1 /\ DroppedCleanly

----------------------------------------------------------------------------
(* C20: one poll cycle at a time *)

\* C20: at most one call of processIpcFiles is pending or running, whatever
\* the number of calls of startIpcWatcher; while one is running none is
\* pending, and one is pending only when the cycle before it has handled all
\* it listed.
C20_OneCycleInFlight ==
  /\ timers + cycles <= 1
  /\ cycles = 1 <=> pc = "cycle"
  /\ timers = 1 => cur = None /\ files = <<>> /\ todo = <<>>

\* A cycle is running on a file of its second tenant directory and no call of
\* processIpcFiles is pending.
C20_Witness ==
  /\ ipcWatcherRunning /\ cycles = 1 /\ timers = 0
  /\ cur # None /\ Len(todo) <= 2

----------------------------------------------------------------------------
(* C21: the order of handling within a cycle *)

\* The positions of the trace before position i where the handling of file n
\* of channel ch of tenant f was finished.
EndedBefore(i, f, ch, n) == {e \in 1..(i - 1) : trace[e] = <<"end", f, ch, n>>}

\* The position of the listing the file begun at position i was taken from.
ListingOf(i) ==
  CHOOSE j \in 1..(i - 1) :
    /\ trace[j][1] = "list"
    /\ \A k \in (j + 1)..(i - 1) : trace[k][1] # "list"

\* C21: when the handling of a file begins, the file before it is finished
\* (read, executed with its awaited call, and disposed of), the files listed
\* ahead of it in its channel are all finished, and, if it is a file of
\* tasks/, so is every file the cycle listed in messages/ of the same tenant.
C21_MessagesBeforeTasks ==
  \A i \in 1..Len(trace) :
    trace[i][1] = "begin" =>
      /\ trace[i - 1][1] # "begin"
      /\ LET order == trace[ListingOf(i)][4]
         IN  \E k \in 1..Len(order) :
               /\ order[k] = trace[i][4]
               /\ trace[ListingOf(i)][2] = trace[i][2]
               /\ trace[ListingOf(i)][3] = trace[i][3]
               /\ \A h \in 1..(k - 1) :
                    EndedBefore(i, trace[i][2], trace[i][3], order[h]) # {}
      /\ trace[i][3] = "tasks" =>
           \A j \in 1..Len(trace) :
             trace[j][1] = "list" /\ trace[j][2] = trace[i][2] /\ trace[j][3] = "messages"
               => \A k \in 1..Len(trace[j][4]) :
                    EndedBefore(i, trace[i][2], "messages", trace[j][4][k]) # {}

\* The same with the demand on skipped files left out: a file that is begun
\* comes after the end of the file before it, follows the listing order, and
\* no file of messages/ of a tenant is begun after one of its tasks/.
OrderOfBegun ==
  \A i \in 1..Len(trace) :
    trace[i][1] = "begin" =>
      /\ trace[i - 1][1] # "begin"
      /\ LET order == trace[ListingOf(i)][4]
         IN  \E k \in 1..Len(order) :
               /\ order[k] = trace[i][4]
               /\ \A h \in 1..(k - 1), b \in 1..Len(trace) :
                    trace[b] = <<"begin", trace[i][2], trace[i][3], order[h]>> => b < i
      /\ trace[i][3] = "tasks" =>
           \A b \in 1..Len(trace) :
             trace[b][1] = "begin" /\ trace[b][2] = trace[i][2] /\ trace[b][3] = "messages"
               => b < i

----------------------------------------------------------------------------
(* C22: failures to read a directory *)

\* statSync threw for an entry of the base directory in the last poll.
ScanFailed == "entries" \in DOMAIN done

\* readdirSync threw for the channel directory the cycle has just come to.
ListFailed == "dir" \in DOMAIN done

\* The channel ch of folder f is gone through in the running cycle: it was
\* come to, or it is still ahead.
Planned(f, ch) ==
  \/ \E i \in 1..Len(trace) : trace[i][1] = "list" /\ trace[i][2] = f /\ trace[i][3] = ch
  \/ \E i \in 1..Len(todo) : todo[i] = <<f, ch>>

\* A channel directory that cannot be listed costs the cycle nothing else:
\* the cycle goes on and every channel of every tenant is gone through.
ChannelFailureContained ==
  /\ ListFailed => pc = "cycle" /\ cur = None /\ files = <<>>
  /\ pc = "cycle" => \A g \in Tenants, ch \in Channels : Planned(g, ch)

\* C22: when a tenant's mailbox directory or a channel directory cannot be
\* read, the poll still runs as a cycle that goes through every channel of
\* every other tenant, and the next poll is scheduled or follows the cycle.
C22_ReadFailureIsContained ==
  /\ ChannelFailureContained
  /\ ScanFailed \/ ListFailed => timers + cycles = 1
  /\ ScanFailed /\ done.entries \subseteq Tenants =>
       /\ pc = "cycle"
       /\ \A g \in Tenants \ done.entries, ch \in Channels : Planned(g, ch)

----------------------------------------------------------------------------
(* C23: the errors directory *)

\* The errors directory is not among the folders of the cycle: no channel of
\* it is ahead, was come to, or has a file listed or in flight.
ErrorsNotScanned ==
  /\ \A i \in 1..Len(todo) : todo[i][1] # ErrorsDir
  /\ \A i \in 1..Len(trace) : trace[i][2] # ErrorsDir
  /\ \A i \in 1..Len(files) : files[i][1] # ErrorsDir
  /\ cur # None => cur.src # ErrorsDir

\* No file of errors/ is deleted or moved away by a step.
ErrorsKept == \A n \in DOMAIN errors : n \in DOMAIN errors'

\* C23: the errors directory is never gone through as a tenant's mailbox, so
\* no file under errors/ is read, parsed or executed, and no step deletes a
\* file of errors/ or moves it away.
C23_ErrorsNeverScanned == []ErrorsNotScanned /\ [][ErrorsKept]_vars

\* A file is in errors/ and a later cycle has gone through every channel
\* without handling anything.
C23_Witness ==
  /\ errors # <<>> /\ pc = "cycle" /\ todo = <<>> /\ Len(trace) = Cardinality(Tenants \X Channels)
  /\ \A i \in 1..Len(trace) : trace[i][1] = "list"

----------------------------------------------------------------------------
(* C24: the names in errors/ *)

\* C24: a step never replaces a file of errors/ by a file that comes from
\* another tenant, another channel or another file name.
C24_NoCollision ==
  [][\A n \in DOMAIN errors : n \in DOMAIN errors' => errors'[n].from = errors[n].from]_vars

----------------------------------------------------------------------------
(* C25: action requests *)

\* C25: an action request found in the mailbox of any tenant reaches its
\* handler, which is given the folder the file was found in whatever the
\* request says of its group, and the store and the registry stay as they
\* were.
C25_ActionsNotGated ==
  Executing /\ cur.chan = "tasks" /\ cur.data.type \in ActionTypes =>
    /\ ~cur.threw => /\ cur.calls # <<>>
                     /\ cur.calls[1] = <<"handler", cur.data.type, cur.src>>
    /\ \A i \in 1..Len(cur.calls) : cur.calls[i][1] = "handler" => cur.calls[i][3] = cur.src
    /\ tasks = cur.before.tasks
    /\ groups = cur.before.groups

\* alpha's send_gmail, which names main as its group, reached the handler as
\* alpha's and the mail was sent.
C25_Witness ==
  /\ Executing /\ cur.src = "alpha" /\ cur.data.type = "send_gmail"
  /\ cur.data.groupFolder = "main"
  /\ cur.calls = << <<"handler", "send_gmail", "alpha">>, <<"googleapis", "send_gmail">> >>
  /\ cur.log = "successfully"

----------------------------------------------------------------------------
(* C26: context_mode of a created task *)

\* C26: the task a schedule_task request creates has the request's
\* context_mode when that is group or isolated, and isolated when the request
\* has none or has anything else.
C26_ContextMode ==
  Executing /\ cur.chan = "tasks" /\ cur.data.type = "schedule_task" =>
    \A id \in Created(cur) :
      tasks[id].context_mode =
        IF cur.data.context_mode \in {"group", "isolated"}
          THEN cur.data.context_mode
          ELSE "isolated"

\* A task was created with context_mode group, as its request asked.
C26_Witness ==
  /\ Executing /\ cur.data.type = "schedule_task" /\ cur.data.context_mode = "group"
  /\ \E id \in Created(cur) : tasks[id].context_mode = "group"

\* A task was created as isolated from a request whose context_mode is
\* neither group nor isolated, and another from a request that has none.
C26_WitnessOther ==
  /\ Executing /\ cur.data.type = "schedule_task" /\ cur.data.context_mode = "Group"
  /\ \E id \in Created(cur) : tasks[id].context_mode = "isolated"

C26_WitnessAbsent ==
  /\ Executing /\ cur.data.type = "schedule_task" /\ cur.data.context_mode = ""
  /\ \E id \in Created(cur) : tasks[id].context_mode = "isolated"

----------------------------------------------------------------------------
(* C27: requests that parse and are incomplete *)

\* The file handled last parsed to a request that lacks what its kind needs:
\* in messages/ anything but a message with chatJid and text; in tasks/ a
\* schedule_task without one of its four fields, a control request without
\* taskId, or a type that is not known.
IncompleteHandled ==
  /\ Handled /\ done.file.parsed /\ done.file.data.kind = "json"
  /\ LET d == done.file.data
     IN  IF done.file.chan = "messages"
           THEN ~CompleteMessage(d)
           ELSE \/ d.type = "schedule_task" /\ ~CompleteSchedule(d)
                \/ d.type \in ControlTypes /\ d.taskId = <<>>
                \/ d.type \notin {"schedule_task", "refresh_groups", "register_group"}
                                   \cup ControlTypes \cup ActionTypes

C27_WitnessMessage ==
  /\ IncompleteHandled /\ done.file.src = "main" /\ done.file.chan = "messages"
  /\ done.file.data.type = "message" /\ done.file.data.text = ""
  /\ NoEffect /\ NothingThrew /\ DroppedCleanly

----------------------------------------------------------------------------
(* C28: the files of a channel are handled independently *)

\* The cycle is through with the channel it came to at position j of the
\* trace: it came to another channel since, or has nothing left to do.
ChannelOver(j) ==
  \/ \E k \in (j + 1)..Len(trace) : trace[k][1] = "list"
  \/ todo = <<>> /\ files = <<>> /\ cur = None

\* C28: when the cycle is through with a channel, every file it listed there
\* was handled, whatever happened to the files listed before it.
C28_FilesIndependent ==
  \A j \in 1..Len(trace) :
    trace[j][1] = "list" /\ ChannelOver(j) =>
      \A h \in 1..Len(trace[j][4]) :
        \E e \in (j + 1)..Len(trace) :
          trace[e] = <<"end", trace[j][2], trace[j][3], trace[j][4][h]>>

----------------------------------------------------------------------------
(* C29: the base directory cannot be created *)

\* C29: once startIpcWatcher has thrown to its caller because the base
\* directory could not be created, it stays so: no call of processIpcFiles is
\* pending or running, none has handled anything, and none ever will.
C29_FailedStartIsFinal ==
  /\ [](pc = "failed" =>
          /\ ipcWatcherRunning /\ timers = 0 /\ cycles = 0
          /\ trace = <<>> /\ cur = None /\ done = NothingDone /\ errors = <<>>)
  /\ [][pc = "failed" => pc' = "failed"]_vars

\* The start failed and the request a tenant wrote since waits in its
\* mailbox.
C29_Witness ==
  /\ pc = "failed" /\ writes = MaxWrites
  /\ \E s \in Slots : mailbox[s] # NoFile

----------------------------------------------------------------------------
(* C30: failures inside an action handler *)

\* The file handled last held an action request that reached its handler.
ActionHandled ==
  /\ Handled /\ done.file.parsed /\ done.file.chan = "tasks"
  /\ done.file.data.type \in ActionTypes
  /\ done.file.calls # <<>>

\* The handler stopped on a failure: no OAuth files, a required field
\* missing, or the Google API call rejecting.
HandlerFailed ==
  /\ ActionHandled
  /\ done.file.log \in {"OAuth not configured", "Missing required fields", "Failed"}

C30_WitnessMissingField ==
  /\ HandlerFailed /\ done.file.data.type = "get_calendar_event"
  /\ done.file.log = "Missing required fields" /\ DroppedCleanly

C30_WitnessOAuth ==
  /\ HandlerFailed /\ done.file.log = "OAuth not configured" /\ DroppedCleanly

----------------------------------------------------------------------------
(* C31: transcribeAudio *)

\* The configuration the call ran under, as the file or the defaults give it.
VoiceConfig == loadConfig(voice.file)

\* The cases in which the fallback message is due: transcription disabled,
\* an unknown provider, a provider without API key, a provider call that
\* failed or gave an empty transcript.
FallbackDue ==
  \/ ~VoiceConfig.enabled
  \/ VoiceConfig.provider \notin {"openai", "groq"}
  \/ VoiceConfig.provider = "openai" /\ VoiceConfig.openaiKey = ""
  \/ VoiceConfig.provider = "groq" /\ VoiceConfig.groqKey = ""
  \/ voice.answer.kind = "throws"
  \/ voice.answer.chars = <<>>

\* The value is as claimed: the configured fallback message when it is due,
\* without any provider call when transcription is disabled, and otherwise
\* the provider's text without the white space around it.
ValueAsClaimed ==
  /\ FallbackDue => voice.value = VoiceConfig.fallbackMessage
  /\ ~VoiceConfig.enabled => voice.calls = <<>>
  /\ ~FallbackDue =>
       /\ voice.calls = <<VoiceConfig.provider>>
       /\ voice.value.type = "string"
       /\ \E i \in 1..Len(voice.answer.chars) + 1, j \in 0..Len(voice.answer.chars) :
            /\ voice.value.chars = SubSeq(voice.answer.chars, i, j)
            /\ \A k \in 1..Len(voice.answer.chars) :
                 k < i \/ k > j => voice.answer.chars[k] \in WhiteSpace
            /\ i <= j => /\ voice.answer.chars[i] \notin WhiteSpace
                         /\ voice.answer.chars[j] \notin WhiteSpace

\* C31: every call of transcribeAudio returns, and returns the value as
\* claimed.
C31_TranscribeAudio ==
  voice # NoCall => voice.result = "returned" /\ ValueAsClaimed

\* The same for every configuration file but the one that holds null.
TranscribeAudioOnObjects ==
  voice # NoCall /\ voice.file.kind # "null" =>
    voice.result = "returned" /\ ValueAsClaimed

----------------------------------------------------------------------------
(* C33: the loop reschedules itself *)

\* A call of processIpcFiles is pending or running.
LoopAlive == timers + cycles = 1

\* C33: once a call of processIpcFiles is pending or running, every step
\* leaves exactly one call pending or running: a cycle that ends, however it
\* ends, has set the timer of the next one.
C33_NeverStopsPolling == [][LoopAlive => LoopAlive']_vars

\* The same for every step but the one in which deps.registeredGroups()
\* throws at the start of the cycle.
ReschedulesUnlessRegistryReadThrows ==
  [][LoopAlive /\ pc' # "dead" => LoopAlive']_vars

----------------------------------------------------------------------------
(* C34: the guard and the loop *)

\* C34: ipcWatcherRunning is set exactly when a call of processIpcFiles is
\* pending or running.
C34_GuardMatchesLoop == ipcWatcherRunning <=> timers + cycles > 0

\* The guard is never set without startIpcWatcher having been called, and a
\* live loop always has it set.
LoopImpliesGuard == timers + cycles > 0 => ipcWatcherRunning

----------------------------------------------------------------------------
(* C32: every request file is disposed of *)

\* No filesystem operation of the last step threw: the base directory was
\* created and scanned, the channel directory listed, the file deleted or
\* moved.
FsSucceeded ==
  /\ pc # "failed"
  /\ \A i \in DOMAIN done.fs : done.fs[i][2] # "throws"

\* The steps in which every filesystem operation succeeds.
NextLive == Next /\ FsSucceeded'

\* The watcher's steps among them.  The loop is one sequential process whose
\* timer fires and whose awaited calls return, so its next step is
\* eventually taken.
WatcherLive == Watcher /\ FsSucceeded'

SpecLive == Init /\ [][NextLive]_vars /\ WF_vars(WatcherLive)

\* The same without the step in which deps.registeredGroups() throws at the
\* start of a cycle.
SpecLiveRegistryReadable ==
  Init /\ [][NextLive /\ pc' # "dead"]_vars /\ WF_vars(WatcherLive /\ pc' # "dead")

\* C32: a request file that is present in a tenant's channel directory is
\* eventually gone from it (deleted or moved to errors/).
C32_EventuallyDisposed ==
  \A slot \in Tenants \X Channels \X FileNames :
    (mailbox[slot] # NoFile) ~> (mailbox[slot] = NoFile)

----------------------------------------------------------------------------
(* C35: the registry a cycle authorizes against *)

C35_WitnessTask ==
  /\ Executing /\ cur.src = "alpha" /\ cur.chan = "tasks" /\ CompleteSchedule(cur.data)
  /\ OwnerOf(cycleGroups, cur.data.targetJid) = ""
  /\ OwnerOf(cur.before.groups, cur.data.targetJid) = "alpha"
  /\ Created(cur) # {}

\* A register_group of this cycle took the jid from alpha, and alpha's
\* message to it, handled later in the cycle, was still sent.
C35_WitnessStale ==
  /\ Executing /\ cur.src = "alpha" /\ cur.chan = "messages" /\ CompleteMessage(cur.data)
  /\ OwnerOf(cycleGroups, cur.data.chatJid) = "alpha"
  /\ OwnerOf(cur.before.groups, cur.data.chatJid) = "beta"
  /\ SendCalls(cur.calls) # {}

----------------------------------------------------------------------------
(* C36: control requests and the registry *)

ControlLogs == {"Task paused via IPC", "Task resumed via IPC", "Task cancelled via IPC"}

\* The file in flight is a control request for a task the store held.
ControlOfStored ==
  /\ Executing /\ ~cur.threw /\ cur.chan = "tasks"
  /\ cur.data.type \in {"pause_task", "resume_task", "cancel_task"}
  /\ cur.data.taskId \in DOMAIN cur.before.tasks

\* C36: a control request for a stored task is carried out exactly when the
\* requester is main or the folder stored with the task, whatever folder the
\* task's chat_jid is registered to when the request is processed; a request
\* that is not carried out leaves the store as it was.
C36_ControlIgnoresRegistry ==
  ControlOfStored =>
    LET id == cur.data.taskId
        allowed == cur.src = "main" \/ cur.before.tasks[id].group_folder = cur.src
    IN  /\ cur.log \in ControlLogs <=> allowed
        /\ ~allowed => tasks = cur.before.tasks
        /\ allowed =>
             CASE cur.data.type = "pause_task" ->
                    id \in DOMAIN tasks /\ tasks[id].status = "paused"
               [] cur.data.type = "resume_task" ->
                    id \in DOMAIN tasks /\ tasks[id].status = "active"
               [] OTHER -> id \notin DOMAIN tasks

\* The jid of alpha's task was registered to beta, and alpha's request for
\* the task is carried out all the same.
C36_Witness ==
  /\ ControlOfStored /\ cur.src = "alpha"
  /\ cur.before.tasks[cur.data.taskId].group_folder = "alpha"
  /\ OwnerOf(cur.before.groups, cur.before.tasks[cur.data.taskId].chat_jid) = "beta"
  /\ cur.log \in ControlLogs /\ tasks # cur.before.tasks

\* The jid of beta's task was registered to alpha, and alpha's request for
\* the task is refused all the same.
C36_WitnessNewOwner ==
  /\ ControlOfStored /\ cur.src = "alpha"
  /\ cur.before.tasks[cur.data.taskId].group_folder = "beta"
  /\ OwnerOf(cur.before.groups, cur.before.tasks[cur.data.taskId].chat_jid) = "alpha"
  /\ cur.log \notin ControlLogs /\ tasks = cur.before.tasks

----------------------------------------------------------------------------
(* C37: files that are not *.json *)

TempSlots == Tenants \X Channels \X TempNames

\* C37: the file the watcher has read always has a name that ends in .json,
\* and so has every file it moved to errors/; a step that is not a tenant's
\* leaves every file of another name as it is; and when tenants write under
\* a temporary name and rename, every file the watcher reads parses.
C37_OnlyJsonFiles ==
  /\ [](cur # None => EndsWithJson(cur.name) /\ cur.parsed)
  /\ [](\A e \in DOMAIN errors : EndsWithJson(errors[e].from[3]))
  /\ [][writes' = writes => \A s \in TempSlots : mailbox'[s] = mailbox[s]]_vars

\* The watcher listed a directory that held a temporary file with a part of
\* a request, and left it there.
C37_Witness ==
  /\ "skipped" \in DOMAIN done
  /\ \E f \in Tenants, ch \in Channels :
       /\ Len(trace) > 0 /\ trace[Len(trace)][1] = "list"
       /\ trace[Len(trace)][2] = f /\ trace[Len(trace)][3] = ch
       /\ mailbox[<<f, ch, "a.json.tmp">>] = Unparsable

\* A request that was written under a temporary name and renamed is carried
\* out.
C37_WitnessRenamed ==
  /\ Executing /\ cur.name = "a.json" /\ cur.data = Message("g1") /\ SendCalls(cur.calls) # {}

----------------------------------------------------------------------------
(* C38: a tenant that writes while its file is handled *)

\* C38: when unlinkSync deletes the file in flight, the file holds what was
\* read from it and executed.
C38_DeletesWhatItExecuted ==
  [][cur # None /\ cur' = None /\ Did(done'.fs, <<"unlinkSync", "ok">>)
       => mailbox[<<cur.src, cur.chan, cur.name>>] = cur.data]_vars

----------------------------------------------------------------------------
(* C39: control requests repeated and undone *)

\* The file in flight is a control request of the given type that was
\* carried out.
CarriedOut(f, type) ==
  /\ f.parsed /\ ~f.threw /\ f.chan = "tasks" /\ f.data.type = type
  /\ f.log \in ControlLogs

\* A pause_task was carried out and the next request handled, a resume_task
\* for the same task, is carried out in this step.
PauseThenResume ==
  /\ Handled /\ CarriedOut(done.file, "pause_task")
  /\ cur = None /\ cur' # None /\ CarriedOut(cur', "resume_task")
  /\ cur'.data.taskId = done.file.data.taskId

\* A pause_task that finds the task paused and a resume_task that finds it
\* active leave the store as it is; so does a cancel_task for a task the
\* store does not hold (any more).
Idempotent ==
  Executing /\ ~cur.threw /\ cur.chan = "tasks" =>
    /\ CarriedOut(cur, "pause_task") /\ cur.before.tasks[cur.data.taskId].status = "paused"
         => tasks = cur.before.tasks
    /\ CarriedOut(cur, "resume_task") /\ cur.before.tasks[cur.data.taskId].status = "active"
         => tasks = cur.before.tasks
    /\ cur.data.type = "cancel_task" /\ cur.data.taskId \notin DOMAIN cur.before.tasks
         => tasks = cur.before.tasks

\* C39 as claimed: control requests are idempotent, and a pause_task followed
\* by a resume_task leaves the task with the record it had before the two.
C39_IdempotentAndReversible ==
  /\ []Idempotent
  /\ [][PauseThenResume =>
          tasks'[cur'.data.taskId] = done.file.before.tasks[cur'.data.taskId]]_vars

\* C39 as amended: control requests are idempotent, and a pause_task followed
\* by a resume_task leaves a task that was active with the record it had
\* before the two.
C39_IdempotentAndReversibleWhenActive ==
  /\ []Idempotent
  /\ [][/\ PauseThenResume
        /\ done.file.before.tasks[cur'.data.taskId].status = "active"
        => tasks'[cur'.data.taskId] = done.file.before.tasks[cur'.data.taskId]]_vars

\* The task was paused, and the resume_task gave it its first record again.
C39_Witness ==
  /\ Executing /\ CarriedOut(cur, "resume_task")
  /\ cur.before.tasks[cur.data.taskId].status = "paused"
  /\ tasks[cur.data.taskId] = IntervalTask(TaskId(0), "g1", "alpha")
  /\ \E i \in DOMAIN trace : trace[i][1] = "end"

\* A pause_task found the task paused.
C39_WitnessPauseTwice ==
  /\ Executing /\ CarriedOut(cur, "pause_task")
  /\ cur.before.tasks[cur.data.taskId].status = "paused" /\ tasks = cur.before.tasks

\* A cancel_task found the task cancelled.
C39_WitnessCancelTwice ==
  /\ Executing /\ ~cur.threw /\ cur.data.type = "cancel_task"
  /\ cur.data.taskId \notin DOMAIN cur.before.tasks /\ tasks = <<>>

====
